---- MODULE Spec2Model ----
(***************************************************************************)
(* Host-side bridge of wasi-http-runner: the per-invocation State (resource *)
(* tables and handle counter), the incoming body pipeline, the outgoing     *)
(* body pipeline with its consumer, the pollable engine and the             *)
(* orchestrator (blocking_service).                                         *)
(***************************************************************************)
EXTENDS Integers, Sequences, FiniteSets, TLC

VARIABLES
    errors,          \* State.errors: set of live error handles
    fields,          \* State.fields: handle -> [immutable, entries]
    requests,        \* State.requests: set of live request handles
    responses,       \* State.responses: handle -> Outgoing body
    incoming,        \* State.incoming: handle -> IncomingBodyWrapper
    pollables,       \* State.pollables: handle -> [kind, id]
    full_responses,  \* State.full_responses: handle -> Option<Outgoing>
    current_id,      \* State.current_id (u32)
    allocs,          \* number of new_id calls made so far (bounds the model)
    overflow_checks, \* build profile: TRUE = arithmetic overflow panics
    producer,        \* the request's hyper Incoming body: [frames, avail]
    guest,           \* typed handles the guest holds: set of <<type, rep>>
    pc,              \* where the guest's worker thread is
    cur,             \* handle of the blocking call in progress (0 = none)
    poll_in,         \* poll: the argument list in_
    resources,       \* poll: the (index, pollable) pairs taken out of the table
    ready,           \* poll: the result vector
    pidx,            \* poll: position of the pass over resources
    should_break,    \* poll: the flag of the current pass
    pass_true,       \* poll: indices whose ready returned true in this pass
    token,           \* park token of the guest's worker thread
    server,          \* the response body held by the async server, if any
    cstate,          \* consumer task: "idle" (scheduled), "pending", "end"
    delivered,       \* frames the consumer has taken, in order
    ret,             \* the last completed host call and its result
    hist             \* history of the invocation (what the claims talk about)

tables == <<errors, fields, requests, responses, incoming, pollables,
            full_responses, current_id, allocs>>
pollv == <<poll_in, resources, ready, pidx, should_break, pass_true>>
servv == <<server, cstate, delivered>>
vars == <<errors, fields, requests, responses, incoming, pollables,
          full_responses, current_id, allocs, overflow_checks, producer,
          guest, pc, cur, poll_in, resources, ready, pidx, should_break,
          pass_true, token, server, cstate, delivered, ret, hist>>

----------------------------------------------------------------------------
(* Bounds of the model *)

MaxAlloc == 3
MaxRead == 2
MaxWrites == 3
MaxPollList == 2
MaxPasses == 2
MaxEntries == 3
MaxOwnSets == 1
MaxFieldSets == 2

(* Program constants *)

BUF_LIMIT == 4096

(* Machine integers are kept as big-endian sequences of 16-bit limbs: a u32 *)
(* (a handle, the counter) is <<hi, lo>>, a 64-bit usize four limbs.        *)
LIMB == 65536
U32_MAX == <<LIMB - 1, LIMB - 1>>
U32(n) == <<0, n>>
U64(n) == <<0, 0, 0, n>>

(* x + 1 in u32, wrapping *)
WrappingInc(x) ==
    IF x[2] < LIMB - 1 THEN <<x[1], x[2] + 1>>
    ELSE IF x[1] < LIMB - 1 THEN <<x[1] + 1, 0>>
    ELSE <<0, 0>>

(* 0 - k in usize, wrapping (0 < k < LIMB) *)
WrappingNeg(k) == <<LIMB - 1, LIMB - 1, LIMB - 1, LIMB - k>>

(* a < b in u32 *)
Less(a, b) == a[1] < b[1] \/ (a[1] = b[1] /\ a[2] < b[2])

(* n <= x for a small natural n and a usize x *)
AtMost(n, x) == x[1] > 0 \/ x[2] > 0 \/ x[3] > 0 \/ n <= x[4]

----------------------------------------------------------------------------
(* Option<T>: None is the empty sequence, Some(x) the one-element sequence *)

None == <<>>
Some(x) == <<x>>
IsSome(o) == o # <<>>
Unwrap(o) == o[1]

(* Frames of the request body: data (with its bytes), trailers, or the     *)
(* error item of the stream.                                               *)
Data(bs) == [k |-> "data", bytes |-> bs]
TrailersFrame == [k |-> "trailers", bytes |-> <<>>]
ErrItem == [k |-> "err", bytes |-> <<>>]

(* The bodies a client may send: frames in order, then end of stream. *)
ProducerScripts ==
    { <<>>,
      <<Data(<<1, 2>>)>>,
      <<Data(<<1, 2>>), TrailersFrame>>,
      <<Data(<<1>>), Data(<<2, 3>>), TrailersFrame>>,
      <<Data(<<1, 2>>), ErrItem>> }

(* Body::poll_frame of the request body: Pending while nothing has arrived, *)
(* the next frame otherwise, None once the frames are exhausted.            *)
PollFrame(p) ==
    IF p.avail = 0 THEN [r |-> "pending", frame |-> ErrItem, next |-> p]
    ELSE IF p.frames = <<>> THEN [r |-> "none", frame |-> ErrItem, next |-> p]
    ELSE [r |-> "some", frame |-> Head(p.frames),
          next |-> [frames |-> Tail(p.frames), avail |-> p.avail - 1]]

BodyStates == {"New", "Data", "Trailers", "Consumed"}

(* IncomingBodyWrapper as built by consume *)
NewWrapper == [state |-> "New", trailers |-> None, last_frame |-> None]

(* Outgoing as built by HostOutgoingResponse::new *)
NewOutgoing == [buf |-> <<>>, waker |-> None, trailers |-> None,
                done |-> FALSE, new |-> TRUE, thread |-> None,
                headers |-> <<>>]

RECURSIVE SumLen(_)
SumLen(chunks) ==
    IF chunks = <<>> THEN 0 ELSE Head(chunks)[2] + SumLen(Tail(chunks))

(* buf.len(): buf is kept as the written chunks <<write number, size>> *)
BufLen(o) == SumLen(o.buf)

Rank(s) == CASE s = "New" -> 0 [] s = "Data" -> 1
             [] s = "Trailers" -> 2 [] s = "Consumed" -> 3

Holds(type, rep) == <<type, rep>> \in guest
Reps(type) == { g[2] : g \in { x \in guest : x[1] = type } }

Result(op, h, res, val) == [op |-> op, h |-> h, res |-> res, val |-> val]

----------------------------------------------------------------------------
(* State::new_id *)

NewIdPanics == current_id = U32_MAX /\ overflow_checks
NextId == WrappingInc(current_id)

(* A successful new_id returning id *)
new_id(id) ==
    /\ allocs < MaxAlloc
    /\ ~NewIdPanics
    /\ id = NextId
    /\ current_id' = id
    /\ allocs' = allocs + 1

----------------------------------------------------------------------------
(* What every host call of the guest starts from, and how it ends badly:   *)
(* a wasmtime::Error ("fatal") or a panic aborts the invocation.           *)

Running == pc = "run"

Trap(op, h, kind) ==
    /\ pc' = "trap"
    /\ ret' = Result(op, h, kind, <<>>)

Return(op, h, res, val) ==
    /\ pc' = "run"
    /\ ret' = Result(op, h, res, val)

(* new_id with overflow checks on and the counter exhausted: the add panics *)
NewIdOverflow(op, h) ==
    /\ NewIdPanics
    /\ Trap(op, h, "panic")
    /\ UNCHANGED <<current_id, allocs>>

----------------------------------------------------------------------------
(* Incoming request and incoming body (http.rs) *)

IncomingRequest_consume(h) ==
    /\ Running
    /\ Holds("IncomingRequest", h)
    /\ IF h \in requests
       THEN /\ requests' = requests \ {h}
            /\ incoming' = (h :> NewWrapper) @@ incoming
            /\ guest' = guest \cup {<<"IncomingBody", h>>}
            /\ Return("consume", h, "ok", <<h>>)
            /\ hist' = [hist EXCEPT !.consume_ok = @ + 1,
                                    !.again = hist.consume_ok > 0]
       ELSE /\ IF h \in DOMAIN incoming
               THEN Return("consume", h, "unit_err", <<>>)
               ELSE Trap("consume", h, "fatal")
            /\ hist' = [hist EXCEPT !.again = hist.consume_ok > 0]
            /\ UNCHANGED <<requests, incoming, guest>>
    /\ UNCHANGED <<errors, fields, responses, pollables, full_responses,
                   current_id, allocs, overflow_checks, producer, cur, pollv,
                   token, servv>>

IncomingRequest_drop(h) ==
    /\ Running
    /\ Holds("IncomingRequest", h)
    /\ requests' = requests \ {h}
    /\ guest' = guest \ {<<"IncomingRequest", h>>}
    /\ Return("request_drop", h, "ok", <<>>)
    /\ UNCHANGED <<errors, fields, responses, incoming, pollables,
                   full_responses, current_id, allocs, overflow_checks,
                   producer, cur, pollv, token, servv, hist>>

IncomingBody_stream(h) ==
    /\ Running
    /\ Holds("IncomingBody", h)
    /\ IF h \notin DOMAIN incoming
       THEN /\ Trap("stream", h, "fatal")
            /\ UNCHANGED <<incoming, guest, hist>>
       ELSE IF incoming[h].state = "New"
       THEN /\ incoming' = [incoming EXCEPT ![h].state = "Data"]
            /\ guest' = guest \cup {<<"InputStream", h>>}
            /\ Return("stream", h, "ok", <<h>>)
            /\ hist' = [hist EXCEPT !.stream_ok = @ + 1,
                                    !.again = hist.stream_ok > 0]
       ELSE /\ Return("stream", h, "unit_err", <<>>)
            /\ hist' = [hist EXCEPT !.again = hist.stream_ok > 0]
            /\ UNCHANGED <<incoming, guest>>
    /\ UNCHANGED <<errors, fields, requests, responses, pollables,
                   full_responses, current_id, allocs, overflow_checks,
                   producer, cur, pollv, token, servv>>

(* finish that lets a body through while its stream is still open *)
IncomingBody_finish_early(h) ==
    /\ Running
    /\ Holds("IncomingBody", h)
    /\ IF h \notin DOMAIN incoming
          \/ incoming[h].state \notin {"Data", "Trailers"}
       THEN /\ Trap("finish", h, "fatal")
            /\ guest' = guest \ {<<"IncomingBody", h>>}
       ELSE /\ Return("finish", h, "ok", <<h>>)
            /\ guest' = (guest \ {<<"IncomingBody", h>>})
                           \cup {<<"FutureTrailers", h>>}
    /\ UNCHANGED <<tables, overflow_checks, producer, cur, pollv, token,
                   servv, hist>>

(* finish takes the body handle by value: the guest gives it up *)
IncomingBody_finish(h) ==
    /\ Running
    /\ Holds("IncomingBody", h)
    /\ IF h \notin DOMAIN incoming \/ incoming[h].state # "Trailers"
       THEN /\ Trap("finish", h, "fatal")
            /\ guest' = guest \ {<<"IncomingBody", h>>}
       ELSE /\ Return("finish", h, "ok", <<h>>)
            /\ guest' = (guest \ {<<"IncomingBody", h>>})
                           \cup {<<"FutureTrailers", h>>}
    /\ UNCHANGED <<tables, overflow_checks, producer, cur, pollv, token,
                   servv, hist>>

IncomingBody_drop(h) ==
    /\ Running
    /\ Holds("IncomingBody", h)
    /\ incoming' = [x \in DOMAIN incoming \ {h} |-> incoming[x]]
    /\ guest' = guest \ {<<"IncomingBody", h>>}
    /\ Return("body_drop", h, "ok", <<>>)
    /\ UNCHANGED <<errors, fields, requests, responses, pollables,
                   full_responses, current_id, allocs, overflow_checks,
                   producer, cur, pollv, token, servv, hist>>

----------------------------------------------------------------------------
(* Input stream (io.rs) *)

Blocking(op) == op \in {"blocking_read", "blocking_skip"}
Counting(op) == op \in {"skip", "blocking_skip"}

(* A read that returns the bytes there are when asked for more *)
ReadData_clamped(w, f, len) ==
    LET n == IF len > Len(f.bytes) THEN Len(f.bytes) ELSE len
    IN  [w |-> [w EXCEPT !.last_frame =
                   Some(Data(SubSeq(f.bytes, n + 1, Len(f.bytes))))],
         res |-> "ok", val |-> SubSeq(f.bytes, 1, n)]

(* A data frame met by read(len): bytes.split_off(len) panics when len is   *)
(* past the end; else the first len bytes are returned and the rest stays   *)
(* in last_frame.                                                           *)
ReadData(w, f, len) ==
    IF len > Len(f.bytes)
    THEN [w |-> w, res |-> "panic", val |-> <<>>]
    ELSE [w |-> [w EXCEPT !.last_frame =
                     Some(Data(SubSeq(f.bytes, len + 1, Len(f.bytes))))],
          res |-> "ok", val |-> SubSeq(f.bytes, 1, len)]

(* read with a frame carried over in last_frame (taken out first) *)
ReadLast(w, len) ==
    LET f == Unwrap(w.last_frame)
        t == [w EXCEPT !.last_frame = None]
    IN  CASE f.k = "err" -> [w |-> t, res |-> "failed", val |-> <<>>]
          [] f.k = "trailers" ->
                [w |-> [t EXCEPT !.trailers = Some("trailers")],
                 res |-> "closed", val |-> <<>>]
          [] f.k = "data" -> ReadData(t, f, len)

(* A read that takes the end of the producer for nothing there yet *)
ReadPolled_reopen(w, pr, len) ==
    CASE pr.r = "pending" -> [w |-> w, res |-> "ok", val |-> <<>>]
      [] pr.r = "none" -> [w |-> w, res |-> "ok", val |-> <<>>]
      [] pr.r = "some" /\ pr.frame.k = "err" ->
            [w |-> w, res |-> "failed", val |-> <<>>]
      [] pr.r = "some" /\ pr.frame.k = "data" -> ReadData(w, pr.frame, len)
      [] pr.r = "some" /\ pr.frame.k = "trailers" ->
            [w |-> [w EXCEPT !.trailers = Some("trailers"),
                             !.state = "Trailers"],
             res |-> "closed", val |-> <<>>]

(* read with what the producer's poll_frame gave *)
ReadPolled(w, pr, len) ==
    CASE pr.r = "pending" -> [w |-> w, res |-> "ok", val |-> <<>>]
      [] pr.r = "none" ->
            [w |-> [w EXCEPT !.state = "Consumed"], res |-> "closed",
             val |-> <<>>]
      [] pr.r = "some" /\ pr.frame.k = "err" ->
            [w |-> w, res |-> "failed", val |-> <<>>]
      [] pr.r = "some" /\ pr.frame.k = "data" -> ReadData(w, pr.frame, len)
      [] pr.r = "some" /\ pr.frame.k = "trailers" ->
            [w |-> [w EXCEPT !.trailers = Some("trailers"),
                             !.state = "Trailers"],
             res |-> "closed", val |-> <<>>]

(* HostInputStream::read / blocking_read / skip / blocking_skip *)
InputStream_read(op, h, len) ==
    /\ Running
    /\ Holds("InputStream", h)
    /\ IF h \notin DOMAIN incoming
       THEN /\ Trap(op, h, "fatal")
            /\ UNCHANGED <<incoming, producer, errors, current_id, allocs,
                           guest, hist>>
       ELSE
        LET w == incoming[h]
            pr == PollFrame(producer)
            polls == w.state # "Consumed" /\ ~IsSome(w.last_frame)
            out == IF w.state = "Consumed"
                   THEN [w |-> w, res |-> "closed", val |-> <<>>]
                   ELSE IF IsSome(w.last_frame) THEN ReadLast(w, len)
                   ELSE ReadPolled(w, pr, len)
        IN  /\ (Blocking(op) /\ polls) => pr.r # "pending"
            /\ incoming' = [incoming EXCEPT ![h] = out.w]
            /\ producer' = IF polls THEN pr.next ELSE producer
            /\ hist' = [hist EXCEPT
                         !.closed = @ \/ out.res = "closed",
                         !.emitted = @ \/ (polls /\ pr.r = "some"
                                             /\ pr.frame.k = "trailers"),
                         !.bytes = @ \o out.val,
                         !.polled = IF polls THEN pr.r ELSE "kept"]
            /\ CASE out.res = "panic" ->
                      /\ Trap(op, h, "panic")
                      /\ UNCHANGED <<errors, current_id, allocs, guest>>
                 [] out.res = "failed" ->
                      \/ /\ NewIdOverflow(op, h)
                         /\ UNCHANGED <<errors, guest>>
                      \/ \E id \in {NextId} :
                            /\ new_id(id)
                            /\ errors' = errors \cup {id}
                            /\ guest' = guest \cup {<<"Error", id>>}
                            /\ Return(op, h, "failed", <<id>>)
                 [] OTHER ->
                      /\ Return(op, h, out.res,
                                IF Counting(op) /\ out.res = "ok"
                                THEN <<Len(out.val)>> ELSE out.val)
                      /\ UNCHANGED <<errors, current_id, allocs, guest>>
    /\ UNCHANGED <<fields, requests, responses, pollables, full_responses,
                   overflow_checks, cur, pollv, token, servv>>

InputStream_subscribe(h) ==
    /\ Running
    /\ Holds("InputStream", h)
    /\ \/ /\ NewIdOverflow("in_subscribe", h)
          /\ UNCHANGED <<pollables, guest>>
       \/ \E id \in {NextId} :
            /\ new_id(id)
            /\ pollables' = (id :> [kind |-> "InputStreamReady", id |-> h])
                               @@ pollables
            /\ guest' = guest \cup {<<"Pollable", id>>}
            /\ Return("in_subscribe", h, "ok", <<id>>)
    /\ UNCHANGED <<errors, fields, requests, responses, incoming,
                   full_responses, overflow_checks, producer, cur, pollv,
                   token, servv, hist>>

InputStream_drop(h) ==
    /\ Running
    /\ Holds("InputStream", h)
    /\ guest' = guest \ {<<"InputStream", h>>}
    /\ IF h \notin DOMAIN incoming
       THEN /\ Trap("stream_drop", h, "fatal")
            /\ UNCHANGED incoming
       ELSE /\ incoming' = [incoming EXCEPT ![h].state = "Trailers"]
            /\ Return("stream_drop", h, "ok", <<>>)
    /\ UNCHANGED <<errors, fields, requests, responses, pollables,
                   full_responses, current_id, allocs, overflow_checks,
                   producer, cur, pollv, token, servv, hist>>

----------------------------------------------------------------------------
(* Future trailers (http.rs) *)

FutureTrailers_subscribe(h) ==
    /\ Running
    /\ Holds("FutureTrailers", h)
    /\ \/ /\ NewIdOverflow("tr_subscribe", h)
          /\ UNCHANGED <<pollables, guest>>
       \/ \E id \in {NextId} :
            /\ new_id(id)
            /\ pollables' = (id :> [kind |-> "TrailerPollable", id |-> h])
                               @@ pollables
            /\ guest' = guest \cup {<<"Pollable", id>>}
            /\ Return("tr_subscribe", h, "ok", <<id>>)
    /\ UNCHANGED <<errors, fields, requests, responses, incoming,
                   full_responses, overflow_checks, producer, cur, pollv,
                   token, servv, hist>>

(* The field set get makes of fetched trailers *)
TrailerFields == [immutable |-> TRUE, entries |-> <<<<"trailer", <<"v">>>>>>]

(* HostFutureTrailers::get: the id is drawn first, whatever happens next *)
FutureTrailers_get(h) ==
    /\ Running
    /\ Holds("FutureTrailers", h)
    /\ \/ /\ NewIdOverflow("get", h)
          /\ UNCHANGED <<fields, incoming, producer, guest, hist>>
       \/ \E id \in {NextId} :
            /\ new_id(id)
            /\ IF h \notin DOMAIN incoming
               THEN /\ Trap("get", h, "fatal")
                    /\ UNCHANGED <<fields, incoming, producer, guest, hist>>
               ELSE IF IsSome(incoming[h].trailers)
               THEN /\ incoming' = [incoming EXCEPT ![h].trailers = None]
                    /\ fields' = (id :> TrailerFields) @@ fields
                    /\ guest' = guest \cup {<<"Fields", id>>}
                    /\ hist' = [hist EXCEPT !.got = @ + 1,
                                  !.early = @ \/ ~hist.closed]
                    /\ Return("get", h, "trailers", <<id>>)
                    /\ UNCHANGED producer
               ELSE
                LET pr == PollFrame(producer)
                IN  /\ producer' = pr.next
                    /\ CASE pr.r = "pending" ->
                              /\ Return("get", h, "none", <<>>)
                              /\ UNCHANGED <<fields, incoming, guest, hist>>
                         [] pr.r = "none" ->
                              /\ incoming' = [incoming EXCEPT
                                                ![h].state = "Consumed"]
                              /\ Return("get", h, "no_trailers", <<>>)
                              /\ UNCHANGED <<fields, guest, hist>>
                         [] pr.r = "some" /\ pr.frame.k = "err" ->
                              /\ Return("get", h, "internal_error", <<>>)
                              /\ UNCHANGED <<fields, incoming, guest, hist>>
                         [] pr.r = "some" /\ pr.frame.k = "data" ->
                              /\ Return("get", h, "none", <<>>)
                              /\ UNCHANGED <<fields, incoming, guest, hist>>
                         [] pr.r = "some" /\ pr.frame.k = "trailers" ->
                              /\ fields' = (id :> TrailerFields) @@ fields
                              /\ guest' = guest \cup {<<"Fields", id>>}
                              /\ hist' = [hist EXCEPT !.got = @ + 1,
                                            !.emitted = TRUE,
                                            !.early = @ \/ ~hist.closed]
                              /\ Return("get", h, "trailers", <<id>>)
                              /\ UNCHANGED incoming
    /\ UNCHANGED <<errors, requests, responses, pollables, full_responses,
                   overflow_checks, cur, pollv, token, servv>>

----------------------------------------------------------------------------
(* The built-in pollables: PollableIndividual::ready.  The outcome is the   *)
(* answer ("true", "false" or "fatal" for a missing table entry) and the    *)
(* state it leaves.                                                         *)

Outcome(res, inc, prod, emit) ==
    [res |-> res, inc |-> inc, prod |-> prod, emit |-> emit]

InputStreamReady_ready(id) ==
    IF id \notin DOMAIN incoming
    THEN Outcome("fatal", incoming, producer, FALSE)
    ELSE LET pr == PollFrame(producer)
         IN  CASE pr.r = "pending" ->
                    Outcome("false", incoming, producer, FALSE)
               [] pr.r = "some" ->
                    Outcome("true",
                            [incoming EXCEPT ![id].last_frame = Some(pr.frame)],
                            pr.next, pr.frame.k = "trailers")
               [] pr.r = "none" ->
                    Outcome("true",
                            [incoming EXCEPT ![id].state = "Consumed"],
                            pr.next, FALSE)

TrailerPollable_ready(id) ==
    IF id \notin DOMAIN incoming
    THEN Outcome("fatal", incoming, producer, FALSE)
    ELSE LET pr == PollFrame(producer)
         IN  CASE pr.r = "pending" ->
                    Outcome("false", incoming, producer, FALSE)
               [] pr.r = "some" /\ pr.frame.k = "err" ->
                    Outcome("true", incoming, pr.next, FALSE)
               [] pr.r = "some" /\ pr.frame.k = "data" ->
                    Outcome("false", incoming, pr.next, FALSE)
               [] pr.r = "some" /\ pr.frame.k = "trailers" ->
                    Outcome("true",
                            [incoming EXCEPT ![id].trailers = Some("trailers")],
                            pr.next, TRUE)
               [] pr.r = "none" ->
                    Outcome("true",
                            [incoming EXCEPT ![id].state = "Consumed"],
                            pr.next, FALSE)

OutputPollable_ready(id) ==
    IF id \notin DOMAIN responses
    THEN Outcome("fatal", incoming, producer, FALSE)
    ELSE Outcome(IF BufLen(responses[id]) < BUF_LIMIT THEN "true" ELSE "false",
                 incoming, producer, FALSE)

PollableReady(p) ==
    CASE p.kind = "InputStreamReady" -> InputStreamReady_ready(p.id)
      [] p.kind = "TrailerPollable" -> TrailerPollable_ready(p.id)
      [] p.kind = "OutputPollable" -> OutputPollable_ready(p.id)

Without(f, hs) == [x \in DOMAIN f \ hs |-> f[x]]

(* HostPollable::ready: take the pollable out, ask it, put it back *)
Pollable_ready(h) ==
    /\ Running
    /\ Holds("Pollable", h)
    /\ IF h \notin DOMAIN pollables
       THEN /\ Trap("ready", h, "fatal")
            /\ UNCHANGED <<incoming, producer, hist>>
       ELSE LET o == PollableReady(pollables[h])
            IN  /\ incoming' = o.inc
                /\ producer' = o.prod
                /\ hist' = [hist EXCEPT !.emitted = @ \/ o.emit]
                /\ IF o.res = "fatal"
                   THEN Trap("ready", h, "fatal")
                   ELSE Return("ready", h, o.res, <<>>)
    /\ UNCHANGED <<errors, fields, requests, responses, pollables,
                   full_responses, current_id, allocs, overflow_checks,
                   guest, cur, pollv, token, servv>>

(* HostPollable::drop: destroy is the default no-op, and the pollable is    *)
(* inserted again.                                                          *)
Pollable_drop(h) ==
    /\ Running
    /\ Holds("Pollable", h)
    /\ guest' = guest \ {<<"Pollable", h>>}
    /\ IF h \notin DOMAIN pollables
       THEN Trap("pollable_drop", h, "fatal")
       ELSE Return("pollable_drop", h, "ok", <<>>)
    /\ UNCHANGED <<tables, overflow_checks, producer, cur, pollv, token,
                   servv, hist>>

----------------------------------------------------------------------------
(* poll::Host::poll *)

(* The longest prefix of in_ whose handles are all found (and removed) *)
RECURSIVE Found(_, _)
Found(list, table) ==
    IF list = <<>> \/ Head(list) \notin DOMAIN table THEN <<>>
    ELSE <<Head(list)>> \o Found(Tail(list), Without(table, {Head(list)}))

Range(s) == { s[i] : i \in 1..Len(s) }

PollLists ==
    UNION { [1..n -> Reps("Pollable")] : n \in 0..MaxPollList }

(* The first loop: every listed pollable is removed from the table *)
Poll_start(list) ==
    /\ Running
    /\ list \in PollLists
    /\ LET got == Found(list, pollables)
       IN  /\ pollables' = Without(pollables, Range(got))
           /\ IF Len(got) < Len(list)
              THEN /\ Trap("poll", U32(0), "fatal")
                   /\ UNCHANGED <<pollv>>
              ELSE /\ pc' = "poll"
                   /\ poll_in' = list
                   /\ resources' = [i \in 1..Len(list) |->
                                      <<list[i], pollables[list[i]]>>]
                   /\ ready' = <<>>
                   /\ pidx' = 1
                   /\ should_break' = FALSE
                   /\ pass_true' = {}
                   /\ UNCHANGED ret
    /\ hist' = [hist EXCEPT !.passes = 0]
    /\ UNCHANGED <<errors, fields, requests, responses, incoming,
                   full_responses, current_id, allocs, overflow_checks,
                   producer, guest, cur, token, servv>>

(* One val.ready(self)? of the pass *)
Poll_ready(i) ==
    /\ pc = "poll"
    /\ i = pidx
    /\ i <= Len(resources)
    /\ LET o == PollableReady(resources[i][2])
       IN  /\ incoming' = o.inc
           /\ producer' = o.prod
           /\ hist' = [hist EXCEPT !.emitted = @ \/ o.emit]
           /\ CASE o.res = "fatal" ->
                     /\ Trap("poll", U32(0), "fatal")
                     /\ UNCHANGED pollv
                [] o.res = "true" ->
                     /\ should_break' = TRUE
                     /\ ready' = Append(ready, i - 1)
                     /\ pass_true' = pass_true \cup {i - 1}
                     /\ pidx' = i + 1
                     /\ UNCHANGED <<pc, ret, poll_in, resources>>
                [] o.res = "false" ->
                     /\ pidx' = i + 1
                     /\ UNCHANGED <<pc, ret, poll_in, resources, ready,
                                    should_break, pass_true>>
    /\ UNCHANGED <<errors, fields, requests, responses, pollables,
                   full_responses, current_id, allocs, overflow_checks,
                   guest, cur, token, servv>>

(* After the loop: self.pollables.extend(resources); Ok(ready) *)
PollReturn ==
    /\ pollables' = [h \in DOMAIN pollables \cup
                            { resources[i][1] : i \in 1..Len(resources) } |->
                       IF \E i \in 1..Len(resources) : resources[i][1] = h
                       THEN resources[CHOOSE i \in 1..Len(resources) :
                                        resources[i][1] = h][2]
                       ELSE pollables[h]]
    /\ Return("poll", U32(0), "ok", ready)
    /\ pidx' = 0
    /\ resources' = <<>>
    /\ UNCHANGED <<poll_in, ready, should_break, pass_true>>

(* A pass that ends the loop whether it found a ready pollable or not *)
PassEnd_once == PollReturn

(* End of a pass: break and return, or go round again with the flag reset *)
PassEnd ==
    IF should_break
    THEN PollReturn
    ELSE /\ pidx' = 1
         /\ should_break' = FALSE
         /\ pass_true' = {}
         /\ UNCHANGED <<pollables, pc, ret, poll_in, resources, ready>>

(* The history counts the passes that ended, up to MaxPasses *)
Poll_pass_end ==
    /\ pc = "poll"
    /\ pidx > Len(resources)
    /\ PassEnd
    /\ hist' = [hist EXCEPT
                  !.passes = IF @ < MaxPasses THEN @ + 1 ELSE @]
    /\ UNCHANGED <<errors, fields, requests, responses, incoming,
                   full_responses, current_id, allocs, overflow_checks,
                   producer, guest, cur, token, servv>>

----------------------------------------------------------------------------
(* HostPollable::block and PollableIndividual::block *)

(* Outgoing::wake: a stored waker reschedules the consumer task *)
Woken(o, cs) == IF IsSome(o.waker) /\ cs = "pending" THEN "idle" ELSE cs

(* block on a missing pollable, on a pollable whose body or response is     *)
(* gone, or on InputStreamReady, whose block is one blocking poll_frame.    *)
Pollable_block(h) ==
    /\ Running
    /\ Holds("Pollable", h)
    /\ IF h \notin DOMAIN pollables
       THEN /\ Trap("block", h, "fatal")
            /\ UNCHANGED <<incoming, producer, hist, pollables, cur>>
       ELSE
        LET p == pollables[h]
        IN  CASE p.kind = "InputStreamReady" ->
                  LET o == InputStreamReady_ready(p.id)
                  IN  /\ o.res # "false"
                      /\ incoming' = o.inc
                      /\ producer' = o.prod
                      /\ hist' = [hist EXCEPT !.emitted = @ \/ o.emit]
                      /\ IF o.res = "fatal"
                         THEN Trap("block", h, "fatal")
                         ELSE Return("block", h, "ok", <<>>)
                      /\ UNCHANGED <<pollables, cur>>
              [] p.kind = "TrailerPollable" ->
                  /\ IF p.id \notin DOMAIN incoming
                     THEN /\ Trap("block", h, "fatal")
                          /\ UNCHANGED <<pollables, cur>>
                     ELSE /\ pc' = "trailer_block"
                          /\ cur' = Some(<<h, p>>)
                          /\ pollables' = Without(pollables, {h})
                          /\ UNCHANGED ret
                  /\ UNCHANGED <<incoming, producer, hist>>
              [] p.kind = "OutputPollable" ->
                  /\ IF p.id \notin DOMAIN responses
                     THEN /\ Trap("block", h, "fatal")
                          /\ UNCHANGED <<pollables, cur>>
                     ELSE /\ pc' = "out_block"
                          /\ cur' = Some(<<h, p>>)
                          /\ pollables' = Without(pollables, {h})
                          /\ UNCHANGED ret
                  /\ UNCHANGED <<incoming, producer, hist>>
    /\ UNCHANGED <<errors, fields, requests, responses, full_responses,
                   current_id, allocs, overflow_checks, guest, pollv, token,
                   servv>>

(* HostPollable::block after the pollable's block returned: insert it again *)
Reinsert == pollables' = (Unwrap(cur)[1] :> Unwrap(cur)[2]) @@ pollables

(* One round of TrailerPollable::block's loop: a blocking poll_frame *)
TrailerPollable_block ==
    /\ pc = "trailer_block"
    /\ LET id == Unwrap(cur)[2].id
           h == Unwrap(cur)[1]
           pr == PollFrame(producer)
       IN  /\ pr.r # "pending"
           /\ producer' = pr.next
           /\ CASE pr.r = "some" /\ pr.frame.k = "data" ->
                     UNCHANGED <<incoming, hist, pc, ret, cur, pollables>>
                [] pr.r = "some" /\ pr.frame.k = "err" ->
                     /\ Reinsert /\ cur' = None
                     /\ Return("block", h, "ok", <<>>)
                     /\ UNCHANGED <<incoming, hist>>
                [] pr.r = "some" /\ pr.frame.k = "trailers" ->
                     /\ incoming' = [incoming EXCEPT
                                       ![id].trailers = Some("trailers")]
                     /\ hist' = [hist EXCEPT !.emitted = TRUE]
                     /\ Reinsert /\ cur' = None
                     /\ Return("block", h, "ok", <<>>)
                [] pr.r = "none" ->
                     /\ incoming' = [incoming EXCEPT ![id].state = "Consumed"]
                     /\ Reinsert /\ cur' = None
                     /\ Return("block", h, "ok", <<>>)
                     /\ UNCHANGED hist
    /\ UNCHANGED <<errors, fields, requests, responses, full_responses,
                   current_id, allocs, overflow_checks, guest, pollv, token,
                   servv>>

(* thread::park: returns at once when the token is there, else the thread   *)
(* waits in the given parked state.                                         *)
Park(parked, back) ==
    IF token THEN /\ token' = FALSE /\ pc' = back
    ELSE /\ pc' = parked /\ UNCHANGED token

(* One round of OutputPollable::block's loop *)
OutputPollable_block ==
    /\ pc = "out_block"
    /\ LET id == Unwrap(cur)[2].id
           h == Unwrap(cur)[1]
       IN  IF BufLen(responses[id]) >= BUF_LIMIT
           THEN /\ responses' = [responses EXCEPT ![id].thread = Some("guest")]
                /\ Park("out_parked", "out_block")
                /\ UNCHANGED <<pollables, cur, ret>>
           ELSE /\ Reinsert /\ cur' = None
                /\ Return("block", h, "ok", <<>>)
                /\ UNCHANGED <<responses, token>>
    /\ UNCHANGED <<errors, fields, requests, incoming, full_responses,
                   current_id, allocs, overflow_checks, producer, guest,
                   pollv, servv, hist>>

(* thread::park returns: the thread was unparked (the token is there and   *)
(* is taken) or the wake-up is spurious, as park allows. Either way the     *)
(* loop around the park goes round again.                                   *)
ParkReturns ==
    /\ pc \in {"out_parked", "flush_parked"}
    /\ token' = FALSE
    /\ pc' = IF pc = "out_parked" THEN "out_block" ELSE "flush"
    /\ UNCHANGED <<tables, overflow_checks, producer, guest, cur, pollv,
                   servv, ret, hist>>

----------------------------------------------------------------------------
(* Fields, outgoing response and outgoing body (http.rs) *)

Fields_new ==
    /\ Running
    /\ \/ /\ NewIdOverflow("fields_new", U32(0))
          /\ UNCHANGED <<fields, guest>>
       \/ \E id \in {NextId} :
            /\ new_id(id)
            /\ fields' = (id :> [immutable |-> FALSE, entries |-> <<>>])
                            @@ fields
            /\ guest' = guest \cup {<<"Fields", id>>}
            /\ Return("fields_new", U32(0), "ok", <<id>>)
    /\ UNCHANGED <<errors, requests, responses, incoming, pollables,
                   full_responses, overflow_checks, producer, cur, pollv,
                   token, servv, hist>>

Fields_drop(h) ==
    /\ Running
    /\ Holds("Fields", h)
    /\ fields' = Without(fields, {h})
    /\ guest' = guest \ {<<"Fields", h>>}
    /\ Return("fields_drop", h, "ok", <<>>)
    /\ UNCHANGED <<errors, requests, responses, incoming, pollables,
                   full_responses, current_id, allocs, overflow_checks,
                   producer, cur, pollv, token, servv, hist>>

(* Field sets (http.rs, HostFields).  A field set is http::HeaderMap: its  *)
(* entries are kept as buckets <<name, values>> in the order of the map's  *)
(* entry vector, which is the order HeaderMap::iter walks.                 *)

InvalidNames == {"", "a b"}
InvalidValues == {"x\n"}

(* HeaderName::try_from and HeaderValue::try_from / from_bytes succeed *)
ValidName(name) == name \notin InvalidNames
ValidValue(v) == v \notin InvalidValues

FieldNames == {"a", "b", "c", "a b"}
FieldValues == {"x", "y", "x\n"}
ValueLists == {<<>>, <<"x">>, <<"y">>, <<"x", "y">>, <<"x\n">>,
               <<"x", "x\n">>}
EntryLists == {<<>>, <<<<"a", "x">>>>, <<<<"a", "x">>, <<"b", "y">>>>,
               <<<<"b", "x">>, <<"b", "y">>>>, <<<<"a", "x\n">>>>,
               <<<<"a", "x">>, <<"a b", "y">>>>}

(* The headers of the request hyper hands to blocking_service *)
RequestHeaders == <<<<"a", <<"x">>>>>>

MapNames(m) == {m[i][1] : i \in DOMAIN m}
Index(m, name) == CHOOSE i \in DOMAIN m : m[i][1] = name

(* HeaderMap::get_all *)
ValuesOf(m, name) ==
    IF name \in MapNames(m) THEN m[Index(m, name)][2] ELSE <<>>

(* HeaderMap::len: the number of values *)
RECURSIVE Size(_)
Size(m) == IF m = <<>> THEN 0 ELSE Len(Head(m)[2]) + Size(Tail(m))

(* HeaderMap::insert keeps the bucket of a present name where it is and    *)
(* replaces all its values by the one given; a new name goes to the end.   *)
MapInsert_first(m, name, v) ==
    IF name \in MapNames(m)
    THEN [m EXCEPT ![Index(m, name)][2] = <<v>> \o Tail(@)]
    ELSE Append(m, <<name, <<v>>>>)

MapInsert(m, name, v) ==
    IF name \in MapNames(m)
    THEN [m EXCEPT ![Index(m, name)] = <<name, <<v>>>>]
    ELSE Append(m, <<name, <<v>>>>)

(* HeaderMap::append and the Entry match of HostFields::append *)
MapAppend(m, name, v) ==
    IF name \in MapNames(m)
    THEN [m EXCEPT ![Index(m, name)][2] = Append(@, v)]
    ELSE Append(m, <<name, <<v>>>>)

(* HeaderMap::remove takes the bucket out with Vec::swap_remove: the last  *)
(* bucket moves into the freed position.                                   *)
MapRemove(m, name) ==
    IF name \notin MapNames(m) THEN m
    ELSE LET i == Index(m, name)
         IN  [j \in 1..(Len(m) - 1) |-> IF j = i THEN m[Len(m)] ELSE m[j]]

(* HeaderMap::iter: every bucket in turn, its values in order *)
RECURSIVE Iter(_)
Iter(m) ==
    IF m = <<>> THEN <<>>
    ELSE [k \in 1..Len(Head(m)[2]) |-> <<Head(m)[1], Head(m)[2][k]>>]
            \o Iter(Tail(m))

(* resource.append for every pair of a validated list *)
RECURSIVE FromList(_, _)
FromList(m, list) ==
    IF list = <<>> THEN m
    ELSE FromList(MapAppend(m, Head(list)[1], Head(list)[2]), Tail(list))

ValidList(list) ==
    \A i \in DOMAIN list : ValidName(list[i][1]) /\ ValidValue(list[i][2])

Outcome2(res, m) == [res |-> res, entries |-> m]

(* The loop of HostFields::set over the values after the first *)
RECURSIVE AppendRest(_, _, _)
AppendRest(m, name, rest) ==
    IF rest = <<>> THEN Outcome2("ok", m)
    ELSE IF ~ValidValue(Head(rest)) THEN Outcome2("invalid-syntax", m)
    ELSE AppendRest(MapAppend(m, name, Head(rest)), name, Tail(rest))

(* HostFields::set on the field set f *)
SetOutcome_validating_first(f, name, vals) ==
    IF ~ValidName(name) THEN Outcome2("invalid-syntax", f.entries)
    ELSE IF f.immutable THEN Outcome2("immutable", f.entries)
    ELSE IF vals = <<>> THEN Outcome2("ok", MapRemove(f.entries, name))
    ELSE IF ~ValidValue(Head(vals))
    THEN Outcome2("invalid-syntax", f.entries)
    ELSE AppendRest(MapInsert(f.entries, name, Head(vals)), name, Tail(vals))

SetOutcome(f, name, vals) ==
    IF f.immutable THEN Outcome2("immutable", f.entries)
    ELSE IF ~ValidName(name) THEN Outcome2("invalid-syntax", f.entries)
    ELSE IF vals = <<>> THEN Outcome2("ok", MapRemove(f.entries, name))
    ELSE IF ~ValidValue(Head(vals))
    THEN Outcome2("invalid-syntax", f.entries)
    ELSE AppendRest(MapInsert(f.entries, name, Head(vals)), name, Tail(vals))

(* HostFields::delete *)
DeleteOutcome(f, name) ==
    IF f.immutable THEN Outcome2("immutable", f.entries)
    ELSE IF ~ValidName(name) THEN Outcome2("invalid-syntax", f.entries)
    ELSE Outcome2("ok", MapRemove(f.entries, name))

(* HostFields::append: the value is validated before the name *)
AppendOutcome(f, name, v) ==
    IF f.immutable THEN Outcome2("immutable", f.entries)
    ELSE IF ~ValidValue(v) THEN Outcome2("invalid-syntax", f.entries)
    ELSE IF ~ValidName(name) THEN Outcome2("invalid-syntax", f.entries)
    ELSE Outcome2("ok", MapAppend(f.entries, name, v))

(* A call of set, delete or append on the handle h that ends as out *)
Mutated(op, h, name, vals, out) ==
    /\ Size(out.entries) <= MaxEntries
    /\ fields' = [fields EXCEPT ![h].entries = out.entries]
    /\ hist' = [hist EXCEPT
                  !.call = [name |-> name, vals |-> vals, id |-> U32(0)],
                  !.pre = fields]
    /\ Return(op, h, out.res, <<>>)

FieldsFrame ==
    UNCHANGED <<errors, requests, responses, incoming, pollables,
                full_responses, current_id, allocs, overflow_checks,
                producer, guest, cur, pollv, token, servv>>

Fields_set(h, name, vals) ==
    /\ Running
    /\ Holds("Fields", h)
    /\ IF h \notin DOMAIN fields
       THEN Trap("set", h, "fatal") /\ UNCHANGED <<fields, hist>>
       ELSE Mutated("set", h, name, vals, SetOutcome(fields[h], name, vals))
    /\ FieldsFrame

Fields_delete(h, name) ==
    /\ Running
    /\ Holds("Fields", h)
    /\ IF h \notin DOMAIN fields
       THEN Trap("delete", h, "fatal") /\ UNCHANGED <<fields, hist>>
       ELSE Mutated("delete", h, name, <<>>, DeleteOutcome(fields[h], name))
    /\ FieldsFrame

Fields_append(h, name, v) ==
    /\ Running
    /\ Holds("Fields", h)
    /\ IF h \notin DOMAIN fields
       THEN Trap("append", h, "fatal") /\ UNCHANGED <<fields, hist>>
       ELSE Mutated("append", h, name, <<v>>,
                    AppendOutcome(fields[h], name, v))
    /\ FieldsFrame

Fields_entries(h) ==
    /\ Running
    /\ Holds("Fields", h)
    /\ IF h \notin DOMAIN fields
       THEN Trap("entries", h, "fatal")
       ELSE Return("entries", h, "ok", Iter(fields[h].entries))
    /\ UNCHANGED <<fields, hist>>
    /\ FieldsFrame

(* A field set inserted under a fresh id and handed to the guest *)
Handed(op, h, id, f) ==
    /\ fields' = (id :> f) @@ fields
    /\ guest' = guest \cup {<<"Fields", id>>}
    /\ Return(op, h, "ok", <<id>>)

FieldsMade ==
    UNCHANGED <<errors, requests, responses, incoming, pollables,
                full_responses, overflow_checks, producer, cur, pollv,
                token, servv>>

(* HostFields::from_list: the empty field set is inserted under the new id *)
(* before the list is validated, and an invalid list returns without       *)
(* taking it out again.                                                    *)
Fields_from_list(list) ==
    /\ Running
    /\ \/ /\ NewIdOverflow("from_list", U32(0))
          /\ UNCHANGED <<fields, guest, hist>>
       \/ \E id \in {NextId} :
            /\ new_id(id)
            /\ hist' = [hist EXCEPT
                          !.call = [name |-> "", vals |-> list,
                                    id |-> current_id],
                          !.pre = fields]
            /\ IF ValidList(list)
               THEN Handed("from_list", U32(0), id,
                           [immutable |-> FALSE,
                            entries |-> FromList(<<>>, list)])
               ELSE /\ fields' = (id :> [immutable |-> FALSE,
                                         entries |-> <<>>]) @@ fields
                    /\ Return("from_list", U32(0), "invalid-syntax", <<>>)
                    /\ UNCHANGED guest
    /\ FieldsMade

(* HostFields::clone: the id is drawn first; the whole (immutable, map)    *)
(* tuple is cloned.                                                        *)
Fields_clone(h) ==
    /\ Running
    /\ Holds("Fields", h)
    /\ \/ /\ NewIdOverflow("clone", h)
          /\ UNCHANGED <<fields, guest, hist>>
       \/ \E id \in {NextId} :
            /\ new_id(id)
            /\ IF h \notin DOMAIN fields
               THEN Trap("clone", h, "fatal")
                    /\ UNCHANGED <<fields, guest, hist>>
               ELSE Handed("clone", h, id, fields[h]) /\ UNCHANGED hist
    /\ FieldsMade

(* HostIncomingRequest::headers *)
IncomingRequest_headers(h) ==
    /\ Running
    /\ Holds("IncomingRequest", h)
    /\ \/ /\ NewIdOverflow("request_headers", h)
          /\ UNCHANGED <<fields, guest, hist>>
       \/ \E id \in {NextId} :
            /\ new_id(id)
            /\ IF h \notin requests
               THEN Trap("request_headers", h, "fatal")
                    /\ UNCHANGED <<fields, guest, hist>>
               ELSE /\ Handed("request_headers", h, id,
                            [immutable |-> TRUE,
                             entries |-> RequestHeaders])
                    /\ UNCHANGED hist
    /\ FieldsMade

(* HostOutgoingResponse::headers *)
OutgoingResponse_headers(h) ==
    /\ Running
    /\ Holds("OutgoingResponse", h)
    /\ \/ /\ NewIdOverflow("response_headers", h)
          /\ UNCHANGED <<fields, guest, hist>>
       \/ \E id \in {NextId} :
            /\ new_id(id)
            /\ IF h \notin DOMAIN responses
               THEN Trap("response_headers", h, "fatal")
                    /\ UNCHANGED <<fields, guest, hist>>
               ELSE /\ Handed("response_headers", h, id,
                            [immutable |-> TRUE,
                             entries |-> responses[h].headers])
                    /\ UNCHANGED hist
    /\ FieldsMade

(* HostOutgoingResponse::new takes the headers by value; the id is drawn    *)
(* before the headers are looked up.                                        *)
OutgoingResponse_new(hd) ==
    /\ Running
    /\ Holds("Fields", hd)
    /\ \/ /\ NewIdOverflow("response_new", hd)
          /\ UNCHANGED <<fields, responses, guest>>
       \/ \E id \in {NextId} :
            /\ new_id(id)
            /\ IF hd \notin DOMAIN fields
               THEN /\ Trap("response_new", hd, "fatal")
                    /\ guest' = guest \ {<<"Fields", hd>>}
                    /\ UNCHANGED <<fields, responses>>
               ELSE /\ fields' = Without(fields, {hd})
                    /\ responses' = (id :> [NewOutgoing EXCEPT
                                              !.headers = fields[hd].entries])
                                        @@ responses
                    /\ guest' = (guest \ {<<"Fields", hd>>})
                                   \cup {<<"OutgoingResponse", id>>}
                    /\ Return("response_new", hd, "ok", <<id>>)
    /\ UNCHANGED <<errors, requests, incoming, pollables, full_responses,
                   overflow_checks, producer, cur, pollv, token, servv, hist>>

OutgoingResponse_body(h) ==
    /\ Running
    /\ Holds("OutgoingResponse", h)
    /\ guest' = guest \cup {<<"OutgoingBody", h>>}
    /\ Return("body", h, "ok", <<h>>)
    /\ UNCHANGED <<tables, overflow_checks, producer, cur, pollv, token,
                   servv, hist>>

OutgoingResponse_drop(h) ==
    /\ Running
    /\ Holds("OutgoingResponse", h)
    /\ responses' = Without(responses, {h})
    /\ guest' = guest \ {<<"OutgoingResponse", h>>}
    /\ Return("response_drop", h, "ok", <<>>)
    /\ UNCHANGED <<errors, fields, requests, incoming, pollables,
                   full_responses, current_id, allocs, overflow_checks,
                   producer, cur, pollv, token, servv, hist>>

(* A write that hands out the stream and leaves the new flag as it was *)
OutgoingBody_write_again(h) ==
    /\ Running
    /\ Holds("OutgoingBody", h)
    /\ IF h \notin DOMAIN responses
       THEN /\ Trap("body_write", h, "fatal")
            /\ UNCHANGED <<responses, guest>>
       ELSE IF ~responses[h].new
       THEN /\ Return("body_write", h, "unit_err", <<>>)
            /\ UNCHANGED <<responses, guest>>
       ELSE /\ guest' = guest \cup {<<"OutputStream", h>>}
            /\ Return("body_write", h, "ok", <<h>>)
            /\ UNCHANGED responses
    /\ UNCHANGED <<errors, fields, requests, incoming, pollables,
                   full_responses, current_id, allocs, overflow_checks,
                   producer, cur, pollv, token, servv, hist>>

(* HostOutgoingBody::write: the output stream is handed out while the new   *)
(* flag is set, and the flag is cleared.                                    *)
OutgoingBody_write(h) ==
    /\ Running
    /\ Holds("OutgoingBody", h)
    /\ IF h \notin DOMAIN responses
       THEN /\ Trap("body_write", h, "fatal")
            /\ UNCHANGED <<responses, guest>>
       ELSE IF ~responses[h].new
       THEN /\ Return("body_write", h, "unit_err", <<>>)
            /\ UNCHANGED <<responses, guest>>
       ELSE /\ responses' = [responses EXCEPT ![h].new = FALSE]
            /\ guest' = guest \cup {<<"OutputStream", h>>}
            /\ Return("body_write", h, "ok", <<h>>)
    /\ UNCHANGED <<errors, fields, requests, incoming, pollables,
                   full_responses, current_id, allocs, overflow_checks,
                   producer, cur, pollv, token, servv, hist>>

(* HostOutgoingBody::finish: tr is None or Some(trailers handle); both the  *)
(* body and the trailers are passed by value. done is set before the        *)
(* trailers are looked up.                                                  *)
OutgoingBody_finish(h, tr) ==
    /\ Running
    /\ Holds("OutgoingBody", h)
    /\ IsSome(tr) => Holds("Fields", Unwrap(tr))
    /\ guest' = guest \ ({<<"OutgoingBody", h>>}
                           \cup { <<"Fields", t>> : t \in Range(tr) })
    /\ IF h \notin DOMAIN responses
       THEN /\ Trap("body_finish", h, "fatal")
            /\ UNCHANGED <<responses, fields>>
       ELSE IF ~IsSome(tr)
       THEN /\ responses' = [responses EXCEPT ![h].done = TRUE]
            /\ Return("body_finish", h, "ok", <<>>)
            /\ UNCHANGED fields
       ELSE IF Unwrap(tr) \notin DOMAIN fields
       THEN /\ responses' = [responses EXCEPT ![h].done = TRUE]
            /\ Trap("body_finish", h, "fatal")
            /\ UNCHANGED fields
       ELSE /\ responses' = [responses EXCEPT ![h].done = TRUE,
                                              ![h].trailers = Some("trailers")]
            /\ fields' = Without(fields, {Unwrap(tr)})
            /\ Return("body_finish", h, "ok", <<>>)
    /\ UNCHANGED <<errors, requests, incoming, pollables, full_responses,
                   current_id, allocs, overflow_checks, producer, cur, pollv,
                   token, servv, hist>>

(* HostResponseOutparam::set with Ok(response): both handles go by value *)
ResponseOutparam_set(param, res) ==
    /\ Running
    /\ Holds("ResponseOutparam", param)
    /\ Holds("OutgoingResponse", res)
    /\ guest' = guest \ {<<"ResponseOutparam", param>>,
                         <<"OutgoingResponse", res>>}
    /\ IF param \notin DOMAIN full_responses
       THEN /\ Trap("set", param, "fatal")
            /\ UNCHANGED <<responses, full_responses>>
       ELSE IF res \notin DOMAIN responses
       THEN /\ Trap("set", param, "fatal")
            /\ UNCHANGED <<responses, full_responses>>
       ELSE /\ responses' = Without(responses, {res})
            /\ full_responses' = [full_responses EXCEPT
                                    ![param] = Some(responses[res])]
            /\ Return("set", param, "ok", <<>>)
    /\ UNCHANGED <<errors, fields, requests, incoming, pollables, current_id,
                   allocs, overflow_checks, producer, cur, pollv, token,
                   servv, hist>>

(* HostResponseOutparam::set with Err(code): response.unwrap() panics *)
ResponseOutparam_set_err(param) ==
    /\ Running
    /\ Holds("ResponseOutparam", param)
    /\ guest' = guest \ {<<"ResponseOutparam", param>>}
    /\ Trap("set", param, "panic")
    /\ UNCHANGED <<tables, overflow_checks, producer, cur, pollv, token,
                   servv, hist>>

ResponseOutparam_drop(h) ==
    /\ Running
    /\ Holds("ResponseOutparam", h)
    /\ full_responses' = Without(full_responses, {h})
    /\ guest' = guest \ {<<"ResponseOutparam", h>>}
    /\ Return("outparam_drop", h, "ok", <<>>)
    /\ UNCHANGED <<errors, fields, requests, responses, incoming, pollables,
                   current_id, allocs, overflow_checks, producer, cur, pollv,
                   token, servv, hist>>

Error_drop(h) ==
    /\ Running
    /\ Holds("Error", h)
    /\ errors' = errors \ {h}
    /\ guest' = guest \ {<<"Error", h>>}
    /\ Return("error_drop", h, "ok", <<>>)
    /\ UNCHANGED <<fields, requests, responses, incoming, pollables,
                   full_responses, current_id, allocs, overflow_checks,
                   producer, cur, pollv, token, servv, hist>>

----------------------------------------------------------------------------
(* Output stream (io.rs) *)

WriteSizes == {0, 1, BUF_LIMIT - 1, BUF_LIMIT, BUF_LIMIT + 1}

(* A check_write that always offers the whole limit *)
CheckWrite_whole(o) == Some(U64(BUF_LIMIT))

(* BUF_LIMIT - resource.buf.len() in usize: None stands for the overflow    *)
(* panic of a build with overflow checks.                                   *)
CheckWrite(o) ==
    IF BufLen(o) <= BUF_LIMIT THEN Some(U64(BUF_LIMIT - BufLen(o)))
    ELSE IF overflow_checks THEN None
    ELSE Some(WrappingNeg(BufLen(o) - BUF_LIMIT))

OutputStream_check_write(h) ==
    /\ Running
    /\ Holds("OutputStream", h)
    /\ IF h \notin DOMAIN responses
       THEN /\ Trap("check_write", h, "fatal")
            /\ UNCHANGED hist
       ELSE LET n == CheckWrite(responses[h])
            IN  IF ~IsSome(n)
                THEN /\ Trap("check_write", h, "panic")
                     /\ UNCHANGED hist
                ELSE /\ Return("check_write", h, "ok", n)
                     /\ hist' = [hist EXCEPT
                                   !.allow = Some([h |-> h, n |-> Unwrap(n)])]
    /\ UNCHANGED <<tables, overflow_checks, producer, guest, cur, pollv,
                   token, servv>>

(* An append that puts the contents in twice *)
Appended_twice(o, n) ==
    IF n = 0 THEN o
    ELSE [o EXCEPT !.buf = Append(Append(@, <<hist.writes + 1, n>>),
                                  <<hist.writes + 1, n>>)]

(* resource.buf.append(contents): the n bytes of this write, as one chunk *)
Appended(o, n) ==
    IF n = 0 THEN o
    ELSE [o EXCEPT !.buf = Append(@, <<hist.writes + 1, n>>)]

(* The history after a write of n bytes on stream h: the write kept the     *)
(* discipline if the call before it on h was a check_write that allowed n;  *)
(* last keeps the size of the write and the buffer length it found.         *)
Wrote(h, n) ==
    [hist EXCEPT !.writes = @ + 1,
                 !.last = [n |-> n, before |-> BufLen(responses[h])],
                 !.allow = None,
                 !.disciplined = /\ @
                                 /\ IsSome(hist.allow)
                                 /\ Unwrap(hist.allow).h = h
                                 /\ AtMost(n, Unwrap(hist.allow).n)]

(* HostOutputStream::write and write_zeroes *)
OutputStream_write(op, h, n) ==
    /\ Running
    /\ Holds("OutputStream", h)
    /\ hist.writes < MaxWrites
    /\ IF h \notin DOMAIN responses
       THEN /\ Trap(op, h, "fatal")
            /\ UNCHANGED <<responses, cstate, hist>>
       ELSE /\ responses' = [responses EXCEPT ![h] = Appended(@, n)]
            /\ cstate' = Woken(responses[h], cstate)
            /\ hist' = Wrote(h, n)
            /\ Return(op, h, "ok", <<>>)
    /\ UNCHANGED <<errors, fields, requests, incoming, pollables,
                   full_responses, current_id, allocs, overflow_checks,
                   producer, guest, cur, pollv, token, server, delivered>>

(* HostOutputStream::flush looks nothing up *)
OutputStream_flush(h) ==
    /\ Running
    /\ Holds("OutputStream", h)
    /\ Return("flush", h, "ok", <<>>)
    /\ UNCHANGED <<tables, overflow_checks, producer, guest, cur, pollv,
                   token, servv, hist>>

(* HostOutputStream::blocking_flush up to its loop *)
OutputStream_blocking_flush(h) ==
    /\ Running
    /\ Holds("OutputStream", h)
    /\ IF h \notin DOMAIN responses
       THEN /\ Trap("blocking_flush", h, "fatal")
            /\ UNCHANGED cur
       ELSE /\ pc' = "flush"
            /\ cur' = Some(<<h, [kind |-> "blocking_flush", id |-> h]>>)
            /\ UNCHANGED ret
    /\ UNCHANGED <<tables, overflow_checks, producer, guest, pollv, token,
                   servv, hist>>

(* HostOutputStream::blocking_write_and_flush and                           *)
(* blocking_write_zeroes_and_flush up to blocking_flush's loop              *)
OutputStream_blocking_write_and_flush(op, h, n) ==
    /\ Running
    /\ Holds("OutputStream", h)
    /\ hist.writes < MaxWrites
    /\ IF h \notin DOMAIN responses
       THEN /\ Trap(op, h, "fatal")
            /\ UNCHANGED <<responses, cur, hist>>
       ELSE /\ responses' = [responses EXCEPT ![h] = Appended(@, n)]
            /\ hist' = Wrote(h, n)
            /\ pc' = "flush"
            /\ cur' = Some(<<h, [kind |-> op, id |-> h]>>)
            /\ UNCHANGED ret
    /\ UNCHANGED <<errors, fields, requests, incoming, pollables,
                   full_responses, current_id, allocs, overflow_checks,
                   producer, guest, pollv, token, servv>>

(* A flush loop with the condition of OutputPollable::block's loop *)
FlushLoop_limit(o) == BufLen(o) >= BUF_LIMIT

(* while resource.buf.len() > 0 { resource.wake(); thread::park(); } *)
FlushLoop(o) == BufLen(o) > 0

(* One round of blocking_flush's loop *)
BlockingFlush_round ==
    /\ pc = "flush"
    /\ LET h == Unwrap(cur)[1]
           op == Unwrap(cur)[2].kind
       IN  IF FlushLoop(responses[h])
           THEN /\ cstate' = Woken(responses[h], cstate)
                /\ Park("flush_parked", "flush")
                /\ UNCHANGED <<cur, ret>>
           ELSE /\ Return(op, h, "ok", <<>>)
                /\ cur' = None
                /\ UNCHANGED <<cstate, token>>
    /\ UNCHANGED <<tables, overflow_checks, producer, guest, pollv, server,
                   delivered, hist>>

OutputStream_subscribe(h) ==
    /\ Running
    /\ Holds("OutputStream", h)
    /\ \/ /\ NewIdOverflow("out_subscribe", h)
          /\ UNCHANGED <<pollables, guest>>
       \/ \E id \in {NextId} :
            /\ new_id(id)
            /\ pollables' = (id :> [kind |-> "OutputPollable", id |-> h])
                               @@ pollables
            /\ guest' = guest \cup {<<"Pollable", id>>}
            /\ Return("out_subscribe", h, "ok", <<id>>)
    /\ UNCHANGED <<errors, fields, requests, responses, incoming,
                   full_responses, overflow_checks, producer, cur, pollv,
                   token, servv, hist>>

(* HostOutputStream::drop and HostOutgoingBody::drop do nothing to State *)
Noop_drop(type, h) ==
    /\ Running
    /\ type \in {"OutputStream", "OutgoingBody", "FutureTrailers"}
    /\ Holds(type, h)
    /\ guest' = guest \ {<<type, h>>}
    /\ Return("noop_drop", h, "ok", <<>>)
    /\ UNCHANGED <<tables, overflow_checks, producer, cur, pollv, token,
                   servv, hist>>

----------------------------------------------------------------------------
(* The orchestrator (lib.rs) and the two parties around the guest *)

ReqId == U32(1)
ResId == U32(2)

EmptyMap == [x \in {} |-> x]

NoHistory ==
    [consume_ok |-> 0, stream_ok |-> 0, again |-> FALSE, closed |-> FALSE,
     emitted |-> FALSE, got |-> 0, early |-> FALSE, bytes |-> <<>>,
     writes |-> 0, allow |-> None, disciplined |-> TRUE, passes |-> 0,
     last |-> [n |-> 0, before |-> 0],
     call |-> [name |-> "", vals |-> <<>>, id |-> U32(0)],
     pre |-> EmptyMap, polled |-> "kept"]

(* blocking_service up to call_handle: a fresh State, the request under the *)
(* first id and an empty response slot under the second.                    *)
Seeded(script, checks) ==
    /\ errors = {}
    /\ fields = EmptyMap
    /\ requests = {ReqId}
    /\ responses = EmptyMap
    /\ incoming = EmptyMap
    /\ pollables = EmptyMap
    /\ full_responses = (ResId :> None)
    /\ current_id = ResId
    /\ allocs = 0
    /\ overflow_checks = checks
    /\ producer = [frames |-> script, avail |-> 0]
    /\ guest = {<<"IncomingRequest", ReqId>>, <<"ResponseOutparam", ResId>>}
    /\ pc = "run"
    /\ cur = None
    /\ poll_in = <<>>
    /\ resources = <<>>
    /\ ready = <<>>
    /\ pidx = 0
    /\ should_break = FALSE
    /\ pass_true = {}
    /\ token = FALSE
    /\ server = None
    /\ cstate = "idle"
    /\ delivered = <<>>
    /\ ret = Result("handle", U32(0), "start", <<>>)
    /\ hist = NoHistory

Init == \E script \in ProducerScripts : Seeded(script, TRUE)

(* blocking_service answering with a response of its own when the slot is  *)
(* empty                                                                    *)
Harvest_default ==
    /\ Running
    /\ server' = IF ResId \in DOMAIN full_responses
                     /\ IsSome(full_responses[ResId])
                 THEN full_responses[ResId]
                 ELSE Some([NewOutgoing EXCEPT !.done = TRUE])
    /\ pc' = "returned"
    /\ ret' = Result("handle", ResId, "ok", <<>>)
    /\ errors' = {}
    /\ fields' = EmptyMap
    /\ requests' = {}
    /\ responses' = EmptyMap
    /\ incoming' = EmptyMap
    /\ pollables' = EmptyMap
    /\ full_responses' = EmptyMap
    /\ guest' = {}
    /\ UNCHANGED <<current_id, allocs, overflow_checks, producer, cur, pollv,
                   token, cstate, delivered, hist>>

(* The guest's handle returns; blocking_service takes the response out of   *)
(* the slot (unwrap, unwrap), the Store and its State are dropped, and the  *)
(* response goes to the server.                                             *)
Harvest ==
    /\ Running
    /\ IF ResId \in DOMAIN full_responses /\ IsSome(full_responses[ResId])
       THEN /\ server' = full_responses[ResId]
            /\ pc' = "returned"
            /\ ret' = Result("handle", ResId, "ok", <<>>)
            /\ errors' = {}
            /\ fields' = EmptyMap
            /\ requests' = {}
            /\ responses' = EmptyMap
            /\ incoming' = EmptyMap
            /\ pollables' = EmptyMap
            /\ full_responses' = EmptyMap
            /\ guest' = {}
       ELSE /\ Trap("handle", ResId, "panic")
            /\ UNCHANGED <<server, errors, fields, requests, responses,
                           incoming, pollables, full_responses, guest>>
    /\ UNCHANGED <<current_id, allocs, overflow_checks, producer, cur, pollv,
                   token, cstate, delivered, hist>>

Frame(k, chunks) == [k |-> k, chunks |-> chunks]

(* A poll_frame that hands off only the oldest chunk of the buffer and     *)
(* clears the rest                                                          *)
poll_frame_first(o) ==
    LET d == [o EXCEPT !.thread = None]
    IN  IF d.buf # <<>>
        THEN [r |-> "data", frame |-> Frame("data", <<Head(d.buf)>>),
              body |-> [d EXCEPT !.buf = <<>>]]
        ELSE IF IsSome(d.trailers)
        THEN [r |-> "trailers", frame |-> Frame("trailers", <<>>),
              body |-> [d EXCEPT !.trailers = None, !.done = TRUE]]
        ELSE IF d.done
        THEN [r |-> "end", frame |-> Frame("end", <<>>), body |-> d]
        ELSE [r |-> "pending", frame |-> Frame("pending", <<>>),
              body |-> [d EXCEPT !.waker = Some("waker")]]

(* A poll_frame that leaves the trailers on the body when it emits them *)
poll_frame_keep(o) ==
    LET d == [o EXCEPT !.thread = None]
    IN  IF d.buf # <<>>
        THEN [r |-> "data", frame |-> Frame("data", d.buf),
              body |-> [d EXCEPT !.buf = <<>>]]
        ELSE IF IsSome(d.trailers)
        THEN [r |-> "trailers", frame |-> Frame("trailers", <<>>),
              body |-> [d EXCEPT !.done = TRUE]]
        ELSE IF d.done
        THEN [r |-> "end", frame |-> Frame("end", <<>>), body |-> d]
        ELSE [r |-> "pending", frame |-> Frame("pending", <<>>),
              body |-> [d EXCEPT !.waker = Some("waker")]]

(* A poll_frame that returns Pending and touches nothing on the body *)
poll_frame_silent(o) ==
    IF o.buf # <<>>
    THEN [r |-> "data", frame |-> Frame("data", o.buf),
          body |-> [o EXCEPT !.buf = <<>>, !.thread = None]]
    ELSE IF IsSome(o.trailers)
    THEN [r |-> "trailers", frame |-> Frame("trailers", <<>>),
          body |-> [o EXCEPT !.trailers = None, !.done = TRUE,
                             !.thread = None]]
    ELSE IF o.done
    THEN [r |-> "end", frame |-> Frame("end", <<>>),
          body |-> [o EXCEPT !.thread = None]]
    ELSE [r |-> "pending", frame |-> Frame("pending", <<>>), body |-> o]

(* Outgoing::poll_frame: what it returns and the body it leaves *)
poll_frame(o) ==
    LET d == [o EXCEPT !.thread = None]
    IN  IF d.buf # <<>>
        THEN [r |-> "data", frame |-> Frame("data", d.buf),
              body |-> [d EXCEPT !.buf = <<>>]]
        ELSE IF IsSome(d.trailers)
        THEN [r |-> "trailers", frame |-> Frame("trailers", <<>>),
              body |-> [d EXCEPT !.trailers = None, !.done = TRUE]]
        ELSE IF d.done
        THEN [r |-> "end", frame |-> Frame("end", <<>>), body |-> d]
        ELSE [r |-> "pending", frame |-> Frame("pending", <<>>),
              body |-> [d EXCEPT !.waker = Some("waker")]]

(* The server polls the body of the response it was handed *)
ConsumerPoll ==
    /\ IsSome(server)
    /\ cstate = "idle"
    /\ LET o == Unwrap(server)
           r == poll_frame(o)
       IN  /\ server' = Some(r.body)
           /\ token' = (token \/ IsSome(o.thread))
           /\ cstate' = CASE r.r = "pending" -> "pending"
                          [] r.r = "end" -> "end"
                          [] OTHER -> "idle"
           /\ delivered' = IF r.r \in {"data", "trailers"}
                           THEN Append(delivered, r.frame) ELSE delivered
    /\ UNCHANGED <<tables, overflow_checks, producer, guest, pc, cur, pollv,
                   ret, hist>>

(* The peer disconnects: the server drops the response body it holds.      *)
(* Outgoing has no Drop: its fields are freed, the Thread handle in it is   *)
(* let go without an unpark, and nothing is recorded for the guest.         *)
ConsumerDrop ==
    /\ IsSome(server)
    /\ server' = None
    /\ cstate' = "dropped"
    /\ UNCHANGED <<tables, overflow_checks, producer, guest, pc, cur, pollv,
                   token, delivered, ret, hist>>

(* The client's next frame, or the end of its body, reaches the host *)
ProducerArrive ==
    /\ pc \notin {"trap", "returned"}
    /\ producer.avail <= Len(producer.frames)
    /\ producer' = [producer EXCEPT !.avail = @ + 1]
    /\ UNCHANGED <<tables, overflow_checks, guest, pc, cur, pollv, token,
                   servv, ret, hist>>

(* The guest creates and drops field sets (Fields_new, Fields_drop) over    *)
(* and over, until the counter stands just below its last value.            *)
Fields_churn ==
    /\ Running
    /\ current_id[1] < LIMB - 1
    /\ current_id' = <<LIMB - 1, LIMB - 2>>
    /\ Return("fields_drop", <<LIMB - 1, LIMB - 2>>, "ok", <<>>)
    /\ UNCHANGED <<errors, fields, requests, responses, incoming, pollables,
                   full_responses, allocs, overflow_checks, producer, guest,
                   cur, pollv, token, servv, hist>>

(* The same once round the counter, which only a build without overflow    *)
(* checks allows: new_id wraps and hands out again every id there is, the   *)
(* ones of the field sets the guest still holds among them. Fields_new     *)
(* puts an empty field set over each of these and Fields_drop takes the    *)
(* entry out, while the guest keeps the handle it had.                      *)
Fields_lap ==
    /\ Running
    /\ ~overflow_checks
    /\ fields # EmptyMap
    /\ fields' = EmptyMap
    /\ Return("fields_drop", current_id, "ok", <<>>)
    /\ UNCHANGED <<errors, requests, responses, incoming, pollables,
                   full_responses, current_id, allocs, overflow_checks,
                   producer, guest, cur, pollv, token, servv, hist>>

----------------------------------------------------------------------------
(* The host calls the guest may make, by interface *)

ReadLens == 0..MaxRead

IncomingOps ==
    \/ \E h \in Reps("IncomingRequest") : IncomingRequest_consume(h)
    \/ \E h \in Reps("IncomingBody") : IncomingBody_stream(h)
    \/ \E h \in Reps("IncomingBody") : IncomingBody_finish(h)
    \/ \E h \in Reps("IncomingBody") : IncomingBody_drop(h)
    \/ \E h \in Reps("InputStream"), len \in ReadLens,
          op \in {"read", "blocking_read", "skip", "blocking_skip"} :
            InputStream_read(op, h, len)
    \/ \E h \in Reps("InputStream") : InputStream_subscribe(h)
    \/ \E h \in Reps("InputStream") : InputStream_drop(h)
    \/ \E h \in Reps("FutureTrailers") : FutureTrailers_subscribe(h)
    \/ \E h \in Reps("FutureTrailers") : FutureTrailers_get(h)

PollOps ==
    \/ \E h \in Reps("Pollable") : Pollable_ready(h)
    \/ \E h \in Reps("Pollable") : Pollable_block(h)
    \/ \E h \in Reps("Pollable") : Pollable_drop(h)
    \/ \E list \in PollLists : Poll_start(list)
    \/ \E i \in 1..MaxPollList : Poll_ready(i)
    \/ Poll_pass_end

OutgoingOps ==
    \/ Fields_new
    \/ \E h \in Reps("Fields") : OutgoingResponse_new(h)
    \/ \E h \in Reps("OutgoingResponse") : OutgoingResponse_body(h)
    \/ \E h \in Reps("OutgoingBody") : OutgoingBody_write(h)
    \/ \E h \in Reps("OutgoingBody"),
          tr \in {None} \cup { Some(t) : t \in Reps("Fields") } :
            OutgoingBody_finish(h, tr)
    \/ \E p \in Reps("ResponseOutparam"), r \in Reps("OutgoingResponse") :
            ResponseOutparam_set(p, r)
    \/ \E p \in Reps("ResponseOutparam") : ResponseOutparam_set_err(p)

StreamOps ==
    \/ \E h \in Reps("OutputStream") : OutputStream_check_write(h)
    \/ \E h \in Reps("OutputStream"), n \in WriteSizes,
          op \in {"write", "write_zeroes"} : OutputStream_write(op, h, n)
    \/ \E h \in Reps("OutputStream") : OutputStream_flush(h)
    \/ \E h \in Reps("OutputStream") : OutputStream_blocking_flush(h)
    \/ \E h \in Reps("OutputStream"), n \in WriteSizes,
          op \in {"blocking_write_and_flush",
                  "blocking_write_zeroes_and_flush"} :
            OutputStream_blocking_write_and_flush(op, h, n)
    \/ BlockingFlush_round
    \/ \E h \in Reps("OutputStream") : OutputStream_subscribe(h)
    \/ OutputPollable_block
    \/ ParkReturns

DropOps ==
    \/ \E h \in Reps("IncomingRequest") : IncomingRequest_drop(h)
    \/ \E h \in Reps("Fields") : Fields_drop(h)
    \/ \E h \in Reps("OutgoingResponse") : OutgoingResponse_drop(h)
    \/ \E h \in Reps("ResponseOutparam") : ResponseOutparam_drop(h)
    \/ \E h \in Reps("Error") : Error_drop(h)
    \/ \E g \in guest : Noop_drop(g[1], g[2])

(* The incoming side: the guest reads the request body *)
NextIn ==
    \/ IncomingOps
    \/ \E h \in Reps("Pollable") : Pollable_ready(h)
    \/ \E h \in Reps("Pollable") : Pollable_block(h)
    \/ TrailerPollable_block
    \/ ProducerArrive

SpecIn == Init /\ [][NextIn]_vars

(* The outgoing side: the guest builds and writes the response, its handle  *)
(* returns, and the server polls the body it was handed. The request has no *)
(* body; both build profiles are covered.                                   *)
InitOut == \E checks \in BOOLEAN : Seeded(<<>>, checks)

NextOut ==
    \/ OutgoingOps
    \/ StreamOps
    \/ \E h \in Reps("Pollable") : Pollable_ready(h)
    \/ \E h \in Reps("Pollable") : Pollable_block(h)
    \/ \E h \in Reps("Fields") : Fields_drop(h)
    \/ \E h \in Reps("OutgoingResponse") : OutgoingResponse_drop(h)
    \/ Harvest
    \/ ConsumerPoll

SpecOut == InitOut /\ [][NextOut]_vars

(* The same under the scheduling the runtime gives: a scheduled consumer    *)
(* task is polled, and a guest thread that is not parked runs on. A parked  *)
(* thread is promised nothing: park returns when somebody unparks it.       *)
SpecOutFair ==
    /\ SpecOut
    /\ WF_vars(ConsumerPoll)
    /\ WF_vars(OutputPollable_block)
    /\ WF_vars(BlockingFlush_round)

(* The outgoing side with a peer that may disconnect at any time *)
NextTeardown ==
    \/ NextOut
    \/ ConsumerDrop

SpecTeardown == InitOut /\ [][NextTeardown]_vars

(* Reads that ask for at least one byte, with readiness probes between     *)
(* them, while the client's frames arrive.                                  *)
PosLens == 1..MaxRead

NextReads ==
    \/ \E h \in Reps("IncomingRequest") : IncomingRequest_consume(h)
    \/ \E h \in Reps("IncomingBody") : IncomingBody_stream(h)
    \/ \E h \in Reps("InputStream"), len \in PosLens,
          op \in {"read", "blocking_read"} : InputStream_read(op, h, len)
    \/ \E h \in Reps("InputStream") : InputStream_subscribe(h)
    \/ \E h \in Reps("Pollable") : Pollable_ready(h)
    \/ ProducerArrive

SpecReads == Init /\ [][NextReads]_vars

(* The same with a guest that makes progress: while its handle can return  *)
(* it eventually does.                                                      *)
SpecOutLive ==
    /\ SpecOutFair
    /\ WF_vars(Harvest)

(* The pollable engine over the incoming side: the guest subscribes to the  *)
(* input stream and the trailers and polls lists of what it holds, while    *)
(* the client's frames arrive.                                              *)
NextPoll ==
    \/ \E h \in Reps("IncomingRequest") : IncomingRequest_consume(h)
    \/ \E h \in Reps("IncomingBody") : IncomingBody_stream(h)
    \/ \E h \in Reps("IncomingBody") : IncomingBody_finish(h)
    \/ \E h \in Reps("InputStream"), len \in ReadLens :
            InputStream_read("read", h, len)
    \/ \E h \in Reps("InputStream") : InputStream_subscribe(h)
    \/ \E h \in Reps("InputStream") : InputStream_drop(h)
    \/ \E h \in Reps("FutureTrailers") : FutureTrailers_subscribe(h)
    \/ \E list \in PollLists : Poll_start(list)
    \/ \E i \in 1..MaxPollList : Poll_ready(i)
    \/ Poll_pass_end
    \/ ProducerArrive

SpecPoll == Init /\ [][NextPoll]_vars

(* The pollable engine under the scheduling the runtime gives, for one      *)
(* client body: the guest's thread keeps running poll's loop, and the       *)
(* client's frames keep arriving.                                           *)
InitPollFair == Seeded(<<Data(<<1, 2>>), TrailersFrame>>, TRUE)

SpecPollFair ==
    /\ InitPollFair
    /\ [][NextPoll]_vars
    /\ WF_vars(\E i \in 1..MaxPollList : Poll_ready(i))
    /\ WF_vars(Poll_pass_end)
    /\ WF_vars(ProducerArrive)

(* The handle counter and the tables, in both build profiles: the guest     *)
(* makes and gives up resources, and may run the counter up.                *)
NextTab ==
    \/ OutgoingOps
    \/ Fields_churn
    \/ Fields_lap
    \/ \E h \in Reps("IncomingRequest") : IncomingRequest_consume(h)
    \/ \E h \in Reps("IncomingRequest") : IncomingRequest_drop(h)
    \/ \E h \in Reps("IncomingBody") : IncomingBody_drop(h)
    \/ \E h \in Reps("Fields") : Fields_drop(h)
    \/ \E h \in Reps("OutgoingResponse") : OutgoingResponse_drop(h)
    \/ \E h \in Reps("ResponseOutparam") : ResponseOutparam_drop(h)

SpecTab == InitOut /\ [][NextTab]_vars

(* Room for one more field set in a table that may hold n of them *)
Room(n) == Cardinality(DOMAIN fields) < n

(* Field sets the guest makes itself, and everything it can do to them *)
NextFields ==
    \/ Room(MaxOwnSets) /\ Fields_new
    \/ \E list \in EntryLists : Room(MaxOwnSets) /\ Fields_from_list(list)
    \/ \E h \in Reps("Fields"), name \in FieldNames, vals \in ValueLists :
          Fields_set(h, name, vals)
    \/ \E h \in Reps("Fields"), name \in FieldNames : Fields_delete(h, name)
    \/ \E h \in Reps("Fields"), name \in FieldNames, v \in FieldValues :
          Fields_append(h, name, v)
    \/ \E h \in Reps("Fields") : Fields_entries(h)
    \/ \E h \in Reps("Fields") : Fields_drop(h)

SpecFields == InitOut /\ [][NextFields]_vars

(* The three immutable views (request headers, response headers, fetched   *)
(* trailers) next to the guest's own field sets and their clones.          *)
ViewNames == {"a", "a b"}
ViewValues == {"x", "x\n"}
ViewLists == {<<>>, <<"x">>, <<"x\n">>}

InitViews == Seeded(<<TrailersFrame>>, TRUE)

NextViews ==
    \/ Room(MaxFieldSets) /\ Fields_new
    \/ \E h \in Reps("Fields"), name \in ViewNames, vals \in ViewLists :
          Fields_set(h, name, vals)
    \/ \E h \in Reps("Fields"), name \in ViewNames : Fields_delete(h, name)
    \/ \E h \in Reps("Fields"), name \in ViewNames, v \in ViewValues :
          Fields_append(h, name, v)
    \/ \E h \in Reps("Fields") : Room(MaxFieldSets) /\ Fields_clone(h)
    \/ \E h \in Reps("Fields") : Fields_drop(h)
    \/ \E h \in Reps("IncomingRequest") :
          Room(MaxFieldSets) /\ IncomingRequest_headers(h)
    \/ \E h \in Reps("Fields") : OutgoingResponse_new(h)
    \/ \E h \in Reps("OutgoingResponse") :
          Room(MaxFieldSets) /\ OutgoingResponse_headers(h)
    \/ \E h \in Reps("IncomingRequest") : IncomingRequest_consume(h)
    \/ \E h \in Reps("IncomingBody") : IncomingBody_stream(h)
    \/ \E h \in Reps("InputStream") : InputStream_drop(h)
    \/ \E h \in Reps("IncomingBody") : IncomingBody_finish(h)
    \/ \E h \in Reps("FutureTrailers") :
          Room(MaxFieldSets) /\ FutureTrailers_get(h)
    \/ ProducerArrive

SpecViews == InitViews /\ [][NextViews]_vars

(* The guest gives up what it holds: every drop, over resources of every   *)
(* kind it can come to hold.                                                *)
NextDrop ==
    \/ DropOps
    \/ \E h \in Reps("Pollable") : Pollable_drop(h)
    \/ \E h \in Reps("IncomingBody") : IncomingBody_drop(h)
    \/ \E h \in Reps("IncomingRequest") : IncomingRequest_consume(h)
    \/ \E h \in Reps("IncomingBody") : IncomingBody_stream(h)
    \/ \E h \in Reps("InputStream"), len \in ReadLens :
            InputStream_read("read", h, len)
    \/ \E h \in Reps("InputStream") : InputStream_subscribe(h)
    \/ \E h \in Reps("Pollable") : Pollable_ready(h)
    \/ Fields_new
    \/ \E h \in Reps("Fields") : OutgoingResponse_new(h)
    \/ \E h \in Reps("OutgoingResponse") : OutgoingResponse_body(h)
    \/ ProducerArrive

(* A request whose body fails after its first frame *)
InitDrop == Seeded(<<Data(<<1, 2>>), ErrItem>>, TRUE)

SpecDrop == InitDrop /\ [][NextDrop]_vars

----------------------------------------------------------------------------
(* Claims about the incoming body *)

(* C1: a wrapper's state only moves forward along New -> Data -> Trailers   *)
(* -> Consumed: no step of any host operation takes a wrapper from a later  *)
(* state to an earlier one.                                                 *)
C1_StateOnlyAdvances ==
    [][\A h \in DOMAIN incoming \cap DOMAIN incoming' :
          Rank(incoming'[h].state) >= Rank(incoming[h].state)]_vars

(* The trailers frame the producer gave is still to be had: stashed on the  *)
(* wrapper or carried in last_frame.                                        *)
TrailersHeld(w) ==
    \/ IsSome(w.trailers)
    \/ w.last_frame = Some(TrailersFrame)

(* C2: trailers the producer emitted are returned by future-trailers.get    *)
(* exactly once: at most one get returns them, none returns them before a   *)
(* read has returned Closed, and while the wrapper lives they are never     *)
(* lost (once taken from the producer they are held or have been returned). *)
C2_TrailersExactlyOnce ==
    /\ hist.got <= 1
    /\ ~hist.early
    /\ \A h \in DOMAIN incoming :
          hist.emitted => (hist.got = 1 \/ TrailersHeld(incoming[h]))

(* C9: consume and stream succeed at most once, and every later consume or  *)
(* stream call on the same handle returns the () failure.                   *)
C9_SingleConsume ==
    /\ hist.consume_ok <= 1
    /\ hist.stream_ok <= 1
    /\ (ret.op \in {"consume", "stream"} /\ hist.again) => ret.res = "unit_err"

----------------------------------------------------------------------------
(* Claims about the outgoing body *)

Bodies ==
    { responses[h] : h \in DOMAIN responses }
      \cup { Unwrap(full_responses[h]) :
                h \in { x \in DOMAIN full_responses : IsSome(full_responses[x]) } }
      \cup { Unwrap(server) : x \in { y \in {0} : IsSome(server) } }

(* C3: while every write carries at most what the check_write before it on  *)
(* the same stream returned, no outgoing buffer is longer than BUF_LIMIT.    *)
C3_BufferBounded ==
    hist.disciplined => \A o \in Bodies : BufLen(o) <= BUF_LIMIT

(* A disciplined guest has filled a buffer to the limit in two writes *)
C3_Witness ==
    /\ hist.disciplined
    /\ hist.writes >= 2
    /\ \E o \in Bodies : BufLen(o) = BUF_LIMIT /\ Len(o.buf) = 2

(* C4: the body is streamed while the guest runs: once the response is in   *)
(* the response-out slot with bytes buffered, the consumer can take them,   *)
(* although the guest's handle has not returned.                            *)
C4_StreamedWhileRunning ==
    \A p \in DOMAIN full_responses :
        (/\ pc = "run"
         /\ IsSome(full_responses[p])
         /\ BufLen(Unwrap(full_responses[p])) > 0) => ENABLED ConsumerPoll

(* C5: a guest thread parked in OutputPollable::block is registered on the  *)
(* body, and block eventually returns with the buffer below BUF_LIMIT.      *)
C5_BlockReturns ==
    /\ [](pc = "out_parked" =>
            IsSome(responses[Unwrap(cur)[2].id].thread))
    /\ (pc = "out_parked") ~>
          (/\ pc = "run"
           /\ ret.op = "block"
           /\ ret.res = "ok")

FlushCalls ==
    {"blocking_flush", "blocking_write_and_flush",
     "blocking_write_zeroes_and_flush"}

(* C6: blocking_flush and blocking_write_and_flush return to the guest only *)
(* with the stream's buffer empty.                                          *)
C6_FlushReturnsEmpty ==
    (/\ pc = "run"
     /\ ret.op \in FlushCalls
     /\ ret.res = "ok") =>
        /\ ret.h \in DOMAIN responses
        /\ BufLen(responses[ret.h]) = 0

(* blocking_write_and_flush has returned, after an earlier write call *)
C6_Witness ==
    /\ pc = "run"
    /\ ret.op = "blocking_write_and_flush"
    /\ ret.res = "ok"
    /\ hist.writes >= 2

(* C7: blocking_flush with a non-empty buffer eventually returns: a guest   *)
(* thread parked inside it is unparked and the call completes.              *)
C7_FlushTerminates ==
    (pc = "flush_parked") ~> (pc = "run" /\ ret.op \in FlushCalls)

----------------------------------------------------------------------------
(* Claims about poll and about the tables *)

(* C8: when poll returns normally its list is non-empty, every index is a   *)
(* position of the input list, and every index belongs to a pollable whose  *)
(* ready was true in the final pass.                                        *)
C8_PollResult ==
    (pc = "run" /\ ret.op = "poll" /\ ret.res = "ok") =>
        /\ Len(ret.val) > 0
        /\ \A k \in 1..Len(ret.val) :
              /\ ret.val[k] \in 0..(Len(poll_in) - 1)
              /\ ret.val[k] \in pass_true

(* poll of two pollables returned after more than one pass, one of the two  *)
(* not ready                                                                *)
C8_Witness ==
    /\ pc = "run"
    /\ ret.op = "poll"
    /\ ret.res = "ok"
    /\ Len(poll_in) = 2
    /\ Len(ret.val) = 1
    /\ hist.passes >= 1

Keys(t) == DOMAIN t

KeySets ==
    <<errors, Keys(fields), requests, Keys(responses), Keys(incoming),
      Keys(pollables), Keys(full_responses)>>

(* C10: the key sets of the seven tables are pairwise disjoint *)
C10_KeysDisjoint ==
    \A i, j \in 1..Len(KeySets) :
        i # j => KeySets[i] \cap KeySets[j] = {}

(* C11: every handle new_id returns is non-zero and greater than every     *)
(* handle returned before: each step that changes the counter raises it,    *)
(* and never to zero.                                                       *)
C11_HandlesIncrease ==
    [][current_id' # current_id =>
          /\ current_id' # U32(0)
          /\ Less(current_id, current_id')]_vars

WriteCalls == {"write", "write_zeroes"}

(* write or write_zeroes has just returned to the guest *)
WriteDone == pc = "run" /\ ret.op \in WriteCalls /\ ret.res = "ok"

(* C12 as stated: after every completed write of n bytes the buffer holds   *)
(* at most BUF_LIMIT + n - 1 bytes, whatever the writes before it.          *)
C12_BoundAnyWrites ==
    WriteDone => BufLen(responses[ret.h]) <= BUF_LIMIT + hist.last.n - 1

(* C12, amended: a write of n bytes that found the buffer below BUF_LIMIT   *)
(* (the output pollable was ready) leaves at most BUF_LIMIT + n - 1 bytes.  *)
C12_BoundAfterHeadroom ==
    (WriteDone /\ hist.last.before < BUF_LIMIT) =>
        BufLen(responses[ret.h]) <= BUF_LIMIT + hist.last.n - 1

(* A write that found headroom has pushed the buffer past the limit *)
C12_Witness ==
    /\ WriteDone
    /\ hist.last.before > 0
    /\ hist.last.before < BUF_LIMIT
    /\ BufLen(responses[ret.h]) > BUF_LIMIT

(* The usize x as a natural, when it is below LIMB *)
Small(x) == x[1] = 0 /\ x[2] = 0 /\ x[3] = 0

(* C13: check_write on a live stream returns BUF_LIMIT minus the buffer     *)
(* length, a value that is not negative: it neither panics nor wraps.       *)
C13_CheckWriteExact ==
    (pc \in {"run", "trap"} /\ ret.op = "check_write" /\ ret.res # "fatal") =>
        /\ ret.res = "ok"
        /\ Small(ret.val[1])
        /\ ret.val[1][4] + BufLen(responses[ret.h]) = BUF_LIMIT

MutOps == {"set", "delete", "append"}

(* set, delete or append has just returned on the handle ret.h; hist.pre is *)
(* the fields table the call found and hist.call its arguments.             *)
FieldCall == pc = "run" /\ ret.op \in MutOps

(* C14: on a field set made as an immutable view, set, delete and append    *)
(* return the immutable error and leave every entry as it was, whatever     *)
(* the name and the values given.                                           *)
C14_ViewsImmutable ==
    (FieldCall /\ hist.pre[ret.h].immutable) =>
        /\ ret.res = "immutable"
        /\ fields = hist.pre

(* set with an invalid name was refused as immutable on the fetched         *)
(* trailers, while the request-headers view is in the table as well.        *)
C14_Witness ==
    /\ FieldCall
    /\ ret.op = "set"
    /\ ~ValidName(hist.call.name)
    /\ ret.res = "immutable"
    /\ fields[ret.h] = TrailerFields
    /\ \E h \in DOMAIN fields : fields[h].entries = RequestHeaders

(* C15: clone returns a new handle whose field set has the entries of the   *)
(* original and is mutable, also when the original is an immutable view.    *)
C15_CloneMutable ==
    (pc = "run" /\ ret.op = "clone" /\ ret.res = "ok") =>
        /\ ret.val[1] # ret.h
        /\ fields[ret.val[1]].entries = fields[ret.h].entries
        /\ ~fields[ret.val[1]].immutable

(* C16: from_list of a list with an invalid name or value returns           *)
(* invalid-syntax, advances the handle counter and leaves the fields table  *)
(* with the handles and entries it had before the call.                     *)
C16_FromListCommitsNothing ==
    (pc = "run" /\ ret.op = "from_list" /\ ~ValidList(hist.call.vals)) =>
        /\ ret.res = "invalid-syntax"
        /\ current_id # hist.call.id
        /\ fields = hist.pre

(* set has just succeeded: the field set is mutable, name and values valid *)
SetDone == FieldCall /\ ret.op = "set" /\ ret.res = "ok"

Now(name) == ValuesOf(fields[ret.h].entries, name)
Before(name) == ValuesOf(hist.pre[ret.h].entries, name)

(* Every name but the one set has the values it had *)
OthersKept ==
    \A name \in FieldNames \ {hist.call.name} : Now(name) = Before(name)

(* C17 as stated: set(name, []) leaves name without values; set(name,       *)
(* [v1, v2, ...]) puts v1 in the place of the first existing entry of name  *)
(* (the later existing entries stay), or inserts it, and appends v2, ...;   *)
(* other names keep their entries.                                          *)
C17_SetReplacesFirst ==
    SetDone =>
        LET name == hist.call.name
            vals == hist.call.vals
        IN  /\ Now(name) =
                  IF vals = <<>> THEN <<>>
                  ELSE IF Before(name) = <<>> THEN vals
                  ELSE <<Head(vals)>> \o Tail(Before(name)) \o Tail(vals)
            /\ OthersKept

(* C17, amended: set(name, [v1, v2, ...]) leaves name with exactly the      *)
(* values v1, v2, ... in order, every earlier value of name replaced, and   *)
(* set(name, []) leaves it with none; other names keep their values.        *)
C17_SetReplacesAll ==
    SetDone => Now(hist.call.name) = hist.call.vals /\ OthersKept

(* set of two values on a name that had two, next to another name *)
C17_Witness ==
    /\ SetDone
    /\ Len(hist.call.vals) = 2
    /\ Len(Before(hist.call.name)) = 2
    /\ Before(hist.call.name) # hist.call.vals
    /\ \E name \in FieldNames \ {hist.call.name} : Before(name) # <<>>

(* The names of m that are still in n stand in n in the order they have in  *)
(* m, and the names new in n come after them.                               *)
OrderKept(m, n) ==
    \A i, j \in DOMAIN n :
        i < j =>
          /\ (n[i][1] \in MapNames(m) /\ n[j][1] \in MapNames(m)) =>
                 Index(m, n[i][1]) < Index(m, n[j][1])
          /\ n[i][1] \notin MapNames(m) => n[j][1] \notin MapNames(m)

(* C18: entries() lists what the field set holds, and no append or set      *)
(* (set with an empty list included) changes the order of the names that    *)
(* stay: names stand in the order they were first inserted.                 *)
C18_InsertionOrder ==
    /\ [](pc = "run" /\ ret.op = "entries" =>
             ret.val = Iter(fields[ret.h].entries))
    /\ [][(ret'.op \in {"set", "append"} /\ pc' = "run") =>
             \A h \in DOMAIN fields \cap DOMAIN fields' :
                OrderKept(fields[h].entries, fields'[h].entries)]_vars

ReadCalls == {"read", "blocking_read"}

(* The bytes the wrapper of h still holds back from a frame *)
Held(h) ==
    IF IsSome(incoming[h].last_frame)
          /\ Unwrap(incoming[h].last_frame).k = "data"
    THEN Len(Unwrap(incoming[h].last_frame).bytes)
    ELSE 0

(* C19: with every data frame taken from the producer and only the         *)
(* trailers frame left, no read panics, whatever length it asks for, and    *)
(* once the reads have returned every data byte a read either is the one    *)
(* that returned the last bytes, or found the trailers not yet arrived, or  *)
(* returns Closed: never an empty list.                                     *)
C19_ReadThenClosed ==
    (/\ pc \in {"run", "trap"}
     /\ ret.op \in ReadCalls
     /\ ret.h \in DOMAIN incoming
     /\ producer.frames = <<TrailersFrame>>) =>
        /\ ret.res # "panic"
        /\ (hist.bytes # <<>> /\ Held(ret.h) = 0) =>
              \/ ret.res = "ok" /\ ret.val # <<>>
              \/ ret.res = "ok" /\ hist.polled = "pending"
              \/ ret.res = "closed"

(* The step is a call of finish: the guest gives up the body handle *)
FinishStep == ret'.op = "finish" /\ guest' # guest

(* C20: finish returns the body handle as the future-trailers handle        *)
(* exactly when the wrapper is in state Trailers; in any other state it     *)
(* ends in a fatal error; the wrapper is left as it was either way.         *)
C20_FinishIffTrailers ==
    [][(FinishStep /\ ret'.h \in DOMAIN incoming) =>
          /\ incoming' = incoming
          /\ IF incoming[ret'.h].state = "Trailers"
             THEN /\ ret'.res = "ok"
                  /\ ret'.val = <<ret'.h>>
                  /\ <<"FutureTrailers", ret'.h>> \in guest'
             ELSE /\ ret'.res = "fatal"
                  /\ <<"FutureTrailers", ret'.h>> \notin guest']_vars

(* finish was refused on a body whose stream is still being read *)
C20_Witness ==
    /\ pc = "trap"
    /\ ret.op = "finish"
    /\ ret.res = "fatal"
    /\ incoming[ret.h].state = "Data"
    /\ hist.bytes # <<>>

(* The response-out slot holds a response *)
Deposited == ResId \in DOMAIN full_responses /\ IsSome(full_responses[ResId])

(* C21: set moves the response named into the slot as it is; when handle    *)
(* returns, the server gets exactly the response in the slot; with the slot *)
(* empty, or after the guest deposited an error, the invocation ends in a   *)
(* host error and the server gets no response.                              *)
C21_DepositedReturned ==
    /\ [](pc # "returned" => server = None)
    /\ [][/\ (ret'.op = "set" /\ pc' = "run" /\ guest' # guest) =>
               \E r \in DOMAIN responses \ DOMAIN responses' :
                  full_responses'[ret'.h] = Some(responses[r])
          /\ (pc = "run" /\ pc' = "returned") =>
               Deposited /\ server' = full_responses[ResId]
          /\ (pc = "run" /\ ret'.op = "handle" /\ ~Deposited) =>
               pc' = "trap" /\ server' = None
          /\ (pc = "run" /\ ret'.op = "set" /\ ret'.res = "panic") =>
               pc' = "trap" /\ server' = None]_vars

(* The server holds the deposited response, bytes written before the       *)
(* deposit still in its buffer.                                             *)
C21_Witness ==
    /\ pc = "returned"
    /\ IsSome(server)
    /\ Unwrap(server).buf # <<>>
    /\ delivered = <<>>

(* The table a drop of each kind is to clear *)
Dropped ==
    [request_drop |-> requests, body_drop |-> DOMAIN incoming,
     fields_drop |-> DOMAIN fields, response_drop |-> DOMAIN responses,
     outparam_drop |-> DOMAIN full_responses, error_drop |-> errors,
     pollable_drop |-> DOMAIN pollables]

(* C22: after the drop of a fields, incoming-request, incoming-body,        *)
(* outgoing-response, error, response-outparam or pollable handle has       *)
(* returned, the handle is not a key of the table of its kind.              *)
C22_DropRemoves ==
    (pc = "run" /\ ret.op \in DOMAIN Dropped) => ret.h \notin Dropped[ret.op]

(* The handles present in the table each operation needs its handle in *)
Requires ==
    [flush |-> DOMAIN responses, blocking_flush |-> DOMAIN responses,
     check_write |-> DOMAIN responses, write |-> DOMAIN responses,
     write_zeroes |-> DOMAIN responses, out_subscribe |-> DOMAIN responses,
     body_write |-> DOMAIN responses, body |-> DOMAIN responses,
     response_drop |-> DOMAIN responses, response_new |-> DOMAIN fields,
     fields_drop |-> DOMAIN fields]

(* C23: a host operation called with a handle that is not in the table it   *)
(* needs ends in a fatal host error; this holds for flush, the drops and    *)
(* outgoing-response body as for the operations that look the handle up.    *)
C23_AbsentIsFatal ==
    [][(/\ pc = "run"
        /\ pc' \in {"run", "trap"}
        /\ ret'.op \in DOMAIN Requires
        /\ ret'.h \notin Requires[ret'.op]) =>
            pc' = "trap" /\ ret'.res = "fatal"]_vars

Moves == {"consume", "body_finish", "response_new"}

(* The step is a call of one of the ownership-transferring operations *)
MoveStep == pc = "run" /\ pc' \in {"run", "trap"} /\ ret'.op \in Moves

(* C24: consume, outgoing-body finish and outgoing-response new either      *)
(* succeed, with the source entry gone and the destination entry there, or  *)
(* fail and leave every table, and with the responses table every flag of   *)
(* an outgoing body (done included), as the call found it.                  *)
C24_MovesAtomic ==
    [][MoveStep =>
          IF ret'.res = "ok"
          THEN CASE ret'.op = "consume" ->
                      /\ ret'.h \in requests /\ ret'.h \notin requests'
                      /\ ret'.h \in DOMAIN incoming'
                 [] ret'.op = "response_new" ->
                      /\ ret'.h \in DOMAIN fields
                      /\ ret'.h \notin DOMAIN fields'
                      /\ ret'.val[1] \in DOMAIN responses'
                 [] ret'.op = "body_finish" ->
                      /\ responses'[ret'.h].done
                      /\ \A t \in DOMAIN fields \ DOMAIN fields' :
                            IsSome(responses'[ret'.h].trailers)
          ELSE UNCHANGED <<errors, fields, requests, responses, incoming,
                           pollables, full_responses>>]_vars

Parked == pc \in {"out_parked", "flush_parked"}

(* C25: while the guest thread is parked in OutputPollable::block or in     *)
(* blocking_flush the consumer can drop the body the thread waits on; the   *)
(* drop releases the thread, and a write made after the drop returns the    *)
(* closed-stream error.                                                     *)
C25_DropReleases ==
    /\ [](Parked => ENABLED ConsumerDrop)
    /\ [][(Parked /\ cstate' = "dropped" /\ cstate # "dropped") => token']_vars
    /\ [][(/\ cstate = "dropped"
           /\ pc = "run"
           /\ pc' \in {"run", "trap"}
           /\ ret'.op \in {"write", "write_zeroes"}) =>
              ret'.res = "closed"]_vars

RECURSIVE DataOf(_)
(* The chunks of the data frames of a frame sequence, in order *)
DataOf(frames) ==
    IF frames = <<>> THEN <<>>
    ELSE (IF Head(frames).k = "data" THEN Head(frames).chunks ELSE <<>>)
            \o DataOf(Tail(frames))

(* What the consumer has been or will be given of the body it holds *)
Stream == DataOf(delivered) \o Unwrap(server).buf

(* C26: a consumer poll that finds the buffer non-empty takes one data      *)
(* frame holding the whole buffer and leaves the buffer empty; a write      *)
(* appends its bytes behind what is buffered; the frames delivered followed *)
(* by what is still buffered are the bytes written, each once and in the    *)
(* order of the writes, and no poll changes that sequence.                  *)
C26_FramesAreWrites ==
    /\ [](IsSome(server) =>
            /\ \A i, j \in 1..Len(Stream) : i < j => Stream[i][1] < Stream[j][1]
            /\ \A i \in 1..Len(Stream) : Stream[i][1] \in 1..hist.writes)
    /\ [][(IsSome(server) /\ IsSome(server')) => Stream' = Stream]_vars
    /\ [][(/\ IsSome(server)
           /\ Unwrap(server).buf # <<>>
           /\ server' # server) =>
              /\ delivered' = Append(delivered,
                                     Frame("data", Unwrap(server).buf))
              /\ Unwrap(server').buf = <<>>]_vars
    /\ [][(/\ pc = "run"
           /\ pc' = "run"
           /\ hist'.writes = hist.writes + 1
           /\ ret'.res = "ok"
           /\ ret'.h \in DOMAIN responses
           /\ ret'.op \in {"write", "write_zeroes"}) =>
              responses'[ret'.h].buf =
                 IF hist'.last.n = 0 THEN responses[ret'.h].buf
                 ELSE Append(responses[ret'.h].buf,
                             <<hist'.writes, hist'.last.n>>)]_vars

(* The consumer took the bytes of two writes in one data frame *)
C26_Witness ==
    /\ IsSome(server)
    /\ Unwrap(server).buf = <<>>
    /\ Len(delivered) >= 1
    /\ delivered[1].k = "data"
    /\ Len(delivered[1].chunks) = 2

TrailersAt == { i \in 1..Len(delivered) : delivered[i].k = "trailers" }

(* C27: the consumer is given at most one trailers frame, it is given it    *)
(* only with the buffer empty and done set, and it is the last frame: once  *)
(* it is out the buffer stays empty and every later poll finds the end of   *)
(* the stream, whatever the guest wrote after finish.                       *)
C27_TrailersLast ==
    /\ [](/\ Cardinality(TrailersAt) <= 1
          /\ TrailersAt \subseteq {Len(delivered)}
          /\ (TrailersAt # {} /\ IsSome(server)) =>
                /\ Unwrap(server).buf = <<>>
                /\ poll_frame(Unwrap(server)).r = "end")
    /\ [][(/\ delivered' # delivered
           /\ delivered'[Len(delivered')].k = "trailers") =>
              /\ Unwrap(server).buf = <<>>
              /\ Unwrap(server).done
              /\ Unwrap(server').done]_vars

(* The consumer was given the written bytes and then the trailers, and has  *)
(* found the end of the stream after them.                                  *)
C27_Witness ==
    /\ Len(delivered) = 2
    /\ delivered[1].k = "data"
    /\ delivered[2].k = "trailers"
    /\ cstate = "end"

(* Nothing for the consumer on body o: no bytes, no trailers, not done *)
Idle(o) == o.buf = <<>> /\ ~IsSome(o.trailers) /\ ~o.done

(* A step in which the server polled the body it holds *)
PollStep ==
    /\ IsSome(server)
    /\ IsSome(server')
    /\ <<server, cstate, delivered>>' # <<server, cstate, delivered>>

(* C28: poll_frame returns Pending exactly for a body with an empty buffer, *)
(* no trailers and done unset; it then leaves the waker on the body and no  *)
(* thread registered. A poll by the server goes pending in exactly that     *)
(* case, with the waker stored, the registration cleared and the park token *)
(* of a thread that was registered set.                                     *)
C28_PendingWhenIdle ==
    /\ [](\A o \in Bodies :
            /\ poll_frame(o).r = "pending" <=> Idle(o)
            /\ poll_frame(o).r = "pending" =>
                  /\ IsSome(poll_frame(o).body.waker)
                  /\ poll_frame(o).body.thread = None)
    /\ [][PollStep =>
            /\ cstate' = "pending" <=> Idle(Unwrap(server))
            /\ cstate' = "pending" =>
                  /\ IsSome(Unwrap(server').waker)
                  /\ Unwrap(server').thread = None
                  /\ IsSome(Unwrap(server).thread) => token']_vars

(* The server polled an unfinished body with nothing buffered and waits *)
C28_Witness ==
    /\ IsSome(server)
    /\ cstate = "pending"
    /\ IsSome(Unwrap(server).waker)
    /\ Idle(Unwrap(server))
    /\ delivered # <<>>

(* C29: ready, block and poll put back what they took out of the pollables  *)
(* table: when one of them has returned, with a result or with an error,    *)
(* the table holds the handles it held before the call, which are the       *)
(* pollable handles the guest holds (no pollable is dropped here).          *)
C29_BorrowedBack ==
    (/\ pc \in {"run", "trap"}
     /\ ret.op \in {"ready", "block", "poll"}) =>
        DOMAIN pollables = Reps("Pollable")

RECURSIVE DataBytes(_)
(* The bytes of the data frames of the client's body, in order *)
DataBytes(frames) ==
    IF frames = <<>> THEN <<>>
    ELSE (IF Head(frames).k = "data" THEN Head(frames).bytes ELSE <<>>)
            \o DataBytes(Tail(frames))

(* C30: the bytes the reads have returned so far, in the order returned,    *)
(* are the first bytes of the client's body (the frames already taken from  *)
(* the producer and those it still holds): none lost, none twice, none out  *)
(* of place, whatever readiness probes were made between the reads.         *)
C30_ReadsArePrefix ==
    \E script \in ProducerScripts :
        /\ Len(producer.frames) <= Len(script)
        /\ producer.frames =
              SubSeq(script, Len(script) - Len(producer.frames) + 1,
                     Len(script))
        /\ Len(hist.bytes) <= Len(DataBytes(script))
        /\ \A i \in 1..Len(hist.bytes) : hist.bytes[i] = DataBytes(script)[i]

(* The step is a read or blocking_read on a stream whose body is there *)
ReadStep ==
    /\ pc = "run"
    /\ pc' \in {"run", "trap"}
    /\ ret'.op \in ReadCalls
    /\ ret'.h \in DOMAIN incoming
    /\ (ret' # ret \/ incoming' # incoming)

(* The frame a read on the body of h meets: the one carried in last_frame,  *)
(* else the one the producer has ready, else none.                          *)
Met(h) ==
    IF incoming[h].state = "Consumed" THEN None
    ELSE IF IsSome(incoming[h].last_frame) THEN incoming[h].last_frame
    ELSE IF PollFrame(producer).r = "some"
    THEN Some(PollFrame(producer).frame)
    ELSE None

(* C31: a read that meets a data frame succeeds whatever length it asks     *)
(* for: it returns the first bytes of the frame and keeps the rest of the   *)
(* frame as last_frame.                                                     *)
C31_ReadSplits ==
    [][(/\ ReadStep
        /\ IsSome(Met(ret'.h))
        /\ Unwrap(Met(ret'.h)).k = "data") =>
           /\ ret'.res = "ok"
           /\ IsSome(incoming'[ret'.h].last_frame)
           /\ Unwrap(incoming'[ret'.h].last_frame).k = "data"
           /\ ret'.val \o Unwrap(incoming'[ret'.h].last_frame).bytes
                 = Unwrap(Met(ret'.h)).bytes]_vars

(* C32: a read that meets a trailers frame, carried in last_frame or given  *)
(* by the producer, stashes the trailers on the wrapper, sets the state to  *)
(* Trailers and returns Closed.                                             *)
C32_TrailersEitherWay ==
    [][(/\ ReadStep
        /\ IsSome(Met(ret'.h))
        /\ Unwrap(Met(ret'.h)).k = "trailers") =>
           /\ ret'.res = "closed"
           /\ IsSome(incoming'[ret'.h].trailers)
           /\ incoming'[ret'.h].state = "Trailers"]_vars

(* C33: a read that asks for at least one byte returns an empty list only   *)
(* when it polled the producer and found nothing there yet, and a           *)
(* blocking_read never returns one; a drained data frame held in last_frame *)
(* is not answered with an empty list.                                      *)
C33_EmptyMeansPending ==
    (/\ pc = "run"
     /\ ret.op \in ReadCalls
     /\ ret.res = "ok"
     /\ ret.val = <<>>) =>
        /\ ret.op = "read"
        /\ hist.polled = "pending"

(* A read for at least one byte found nothing yet, the client's body still *)
(* to come, and returned an empty list.                                     *)
C33_Witness ==
    /\ pc = "run"
    /\ ret.op = "read"
    /\ ret.res = "ok"
    /\ ret.val = <<>>
    /\ hist.polled = "pending"
    /\ producer.frames # <<>>

(* What future-trailers.get on the body of h returns in this state *)
GetResult(h) ==
    IF IsSome(incoming[h].trailers) THEN "trailers"
    ELSE LET pr == PollFrame(producer)
         IN  CASE pr.r = "pending" -> "none"
               [] pr.r = "none" -> "no_trailers"
               [] pr.r = "some" /\ pr.frame.k = "err" -> "internal_error"
               [] pr.r = "some" /\ pr.frame.k = "data" -> "none"
               [] pr.r = "some" /\ pr.frame.k = "trailers" -> "trailers"

(* The producer has an error to report *)
ErrorNext ==
    PollFrame(producer).r = "some" /\ PollFrame(producer).frame.k = "err"

(* The step is a ready or a block of the trailers pollable of body id that  *)
(* polled the producer                                                      *)
TrailerProbe(id) ==
    /\ id \in DOMAIN incoming
    /\ producer' # producer
    /\ \/ /\ pc = "run"
          /\ pc' = "run"
          /\ ret'.op = "ready"
          /\ ret'.h \in DOMAIN pollables
          /\ pollables[ret'.h] = [kind |-> "TrailerPollable", id |-> id]
       \/ /\ pc = "trailer_block"
          /\ Unwrap(cur)[2].id = id

(* C34: when the producer reports an error to the trailers pollable, ready  *)
(* and block report ready, and the get that follows returns the error as    *)
(* the internal error, not 'no trailers' and not 'not ready'.               *)
C34_ErrorReachesGet ==
    [][\A id \in DOMAIN incoming :
          (TrailerProbe(id) /\ ErrorNext) =>
             /\ pc' = "run"
             /\ ret'.op \in {"ready", "block"}
             /\ ret'.res \in {"true", "ok"}
             /\ GetResult(id)' = "internal_error"]_vars

(* The step is a call of outgoing-body.write on a body in the table *)
BodyWriteStep ==
    /\ pc = "run"
    /\ pc' \in {"run", "trap"}
    /\ ret'.op = "body_write"
    /\ ret'.h \in DOMAIN responses
    /\ (ret' # ret \/ responses' # responses)

FinishCalled ==
    /\ Deposited
    /\ \/ Unwrap(full_responses[ResId]).done
       \/ pc \in {"run", "trap"} /\ ret.op = "body_finish"

(* C36: once the guest has called finish on the body of the response it     *)
(* deposited, the consumer is eventually given what is buffered, the         *)
(* trailers and the end of the stream, whether finish came before the        *)
(* deposit or after it (when the consumer may already wait), unless another  *)
(* call of the guest ends the invocation first.                              *)
C36_FinishDelivers ==
    FinishCalled ~>
        \/ cstate = "end" /\ IsSome(server) /\ Unwrap(server).buf = <<>>
        \/ pc = "trap" /\ ret.op # "body_finish"

StreamCalls == {"read", "blocking_read", "skip", "blocking_skip"}

(* The producer has ended: its poll_frame returns None *)
Ended == PollFrame(producer).r = "none"

(* C37: once a read, blocking_read, skip or blocking_skip has returned      *)
(* Closed and the producer has ended, every read on the stream returns      *)
(* Closed, whatever probes were made in between.                            *)
C37_ClosedSticks ==
    [][(/\ pc = "run"
        /\ pc' \in {"run", "trap"}
        /\ ret'.op \in StreamCalls
        /\ ret'.h \in DOMAIN incoming
        /\ (ret' # ret \/ incoming' # incoming)
        /\ hist.closed
        /\ Ended) =>
           /\ pc' = "run"
           /\ ret'.res = "closed"]_vars

(* Closed was returned with the trailers, and again after the producer had  *)
(* ended and a probe had seen the end.                                      *)
C37_Witness ==
    /\ pc = "run"
    /\ ret.op \in StreamCalls
    /\ ret.res = "closed"
    /\ ret.h \in DOMAIN incoming
    /\ incoming[ret.h].state = "Consumed"
    /\ IsSome(incoming[ret.h].trailers)
    /\ hist.bytes # <<>>
    /\ DOMAIN pollables # {}

(* C38: a set, append or delete that returns invalid-syntax leaves the      *)
(* entries of the field set as the call found them.                         *)
C38_InvalidChangesNothing ==
    (/\ FieldCall
     /\ ret.res = "invalid-syntax"
     /\ ret.h \in DOMAIN fields
     /\ ret.h \in DOMAIN hist.pre) =>
        fields[ret.h].entries = hist.pre[ret.h].entries

(* C39: every call of poll ends: while the client's frames keep arriving a  *)
(* poll that has taken its pollables out of the table returns to the guest, *)
(* with a result or with a fatal error, whatever its list, the empty list   *)
(* included.                                                                *)
C39_PollTerminates ==
    (pc = "poll") ~> (pc \in {"run", "trap"} /\ ret.op = "poll")

====
